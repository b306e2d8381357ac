--------------------------- MODULE CustodyProofs ----------------------------
(* TLAPS proofs about Custody, for any accounts, collectors and launchers,   *)
(* any number of tokens and of events.                                       *)
EXTENDS Custody, TLAPS

MaybeToken == Token \cup {None}

Pass == [st : {"idle", "current", "info", "fetching"}, active : Account \cup {None},
         creds : [Account -> MaybeToken], moved : BOOLEAN]
Fetch == [st : {"none", "won", "refresh1", "persist1", "usage1", "refresh2", "persist2", "usage2",
                "done"},
          tok : MaybeToken, orig : MaybeToken, active : BOOLEAN, may : BOOLEAN,
          skipped : BOOLEAN, out : {"none", "sentinel", "invalid_grant", "error", "ok"},
          owned : SUBSET Token]
Run == [st : {"idle", "check", "wait", "refresh", "seed", "exec", "live"},
        acct : Account \cup {None}, cred : MaybeToken]
Profile == [cred : MaybeToken, ident : Account \cup {None}, stale : BOOLEAN]
Minted == [Account -> 0 .. MaxMint]
Profiles == [Account -> Profile]

\* The types of every variable, the progress of each actor included.
Types ==
  /\ live \in Token /\ cfg \in Account
  /\ bk \in [Account -> Token]
  /\ prof \in Profiles
  /\ cc \in BOOLEAN /\ lock \in Launcher \cup {None}
  /\ row \in [Account -> [busy : BOOLEAN, dead : BOOLEAN]]
  /\ minted \in Minted /\ spent \subseteq Token /\ expired \subseteq Token
  /\ pass \in [Collector -> Pass]
  /\ fetch \in [Collector -> [Account -> Fetch]]
  /\ run \in [Launcher -> Run]

\* With m the server's count of tokens: t has been issued.
Issued(m, t) == t[2] <= m[t[1]]

\* Profile b has the credential of a session that logged in to another slot's account.
Stray(p, b) == p[b].cred # None /\ Owner(p[b].cred) # b

\* What the login, the slots, the reads, the fetches and the launches hold: an issued
\* token that is not the stray credential of a session, which is that session's alone.
Held(m, p, t) ==
  /\ t \in Token /\ Issued(m, t)
  /\ \A b \in Account : Stray(p, b) => p[b].cred # t

\* A profile's credential is never without a login, and under the slot's own login
\* it is the slot's own credential.
ProfileOK(m, p, a) ==
  p[a].cred # None =>
    /\ Issued(m, p[a].cred) /\ p[a].ident # None
    /\ p[a].ident = a => Owner(p[a].cred) = a

\* A launcher that has read the backup holds a token of its account.
RunOK(m, p, r) ==
  /\ r.st # "idle" => r.acct \in Account
  /\ r.st \in {"refresh", "seed"} => Held(m, p, r.cred) /\ Owner(r.cred) = r.acct

\* A pass that no switch or login overtook knows the live account (g); what it read
\* for an account it takes to be inactive is the account's own token.
PassOK(m, p, g, q) ==
  /\ q.st # "idle" /\ ~q.moved => q.active = g
  /\ q.st \in {"info", "fetching"} =>
       \A a \in Account : Held(m, p, q.creds[a]) /\ (a # q.active => Owner(q.creds[a]) = a)

\* A fetch that refreshes or persists may do so; it then works on a token of the slot's
\* own account, and on one that no registered Claude Code held when it was routed, or
\* a successor of it.
Renewing == {"refresh1", "persist1", "refresh2", "persist2"}
FetchOK(m, p, q, a, f) ==
  /\ f.st # "none" => q.st = "fetching"
  /\ f.st \in Renewing => f.may
  /\ f.st \in Renewing \cup {"usage1", "usage2"} /\ f.may =>
       /\ Held(m, p, f.tok) /\ Held(m, p, f.orig)
       /\ Owner(f.tok) = a /\ Owner(f.orig) = a
       /\ ~q.moved => f.tok \notin f.owned
  /\ \A t \in f.owned : Issued(m, t)

ServerOK == \A t \in spent \cup expired : Issued(minted, t)
LockOK == \A l \in Launcher : (lock = l) = (run[l].st \in {"refresh", "seed"})
LoginOK == Held(minted, prof, live) /\ Owner(live) = cfg
SlotsOK == \A a \in Account : Held(minted, prof, bk[a]) /\ Owner(bk[a]) = a
ProfilesOK == \A a \in Account : ProfileOK(minted, prof, a)
RunsOK == \A l \in Launcher : RunOK(minted, prof, run[l])
PassesOK == \A c \in Collector : PassOK(minted, prof, cfg, pass[c])
FetchesOK == \A c \in Collector, a \in Account : FetchOK(minted, prof, pass[c], a, fetch[c][a])

\* The inductive invariant.
IInv ==
  /\ Types /\ ServerOK /\ LockOK /\ LoginOK /\ SlotsOK /\ ProfilesOK
  /\ RunsOK /\ PassesOK /\ FetchesOK

\* The initial login, backups and tokens.
LEMMA InitIInv == Init => IInv
<1> SUFFICES ASSUME Init PROVE IInv
  OBVIOUS
<1> USE CustodyAssumption DEF Init, NoPass, NoFetch, NoRun, NoProfile, Owner
<1>1. MaxMint \in Nat
  OBVIOUS
<1>2. Types
  <2>1. live \in Token /\ minted \in Minted /\ bk \in [Account -> Token]
        /\ spent \subseteq Token /\ expired \subseteq Token
    BY <1>1 DEF Token, Minted
  <2>2. None \in MaybeToken
    BY DEF MaybeToken
  <2>3. NoPass \in Pass /\ NoFetch \in Fetch /\ NoRun \in Run /\ NoProfile \in Profile
    BY <2>2 DEF Pass, Fetch, Run, Profile
  <2> QED
    BY <2>1, <2>3 DEF Types, Profiles
<1>3. ServerOK
  BY DEF ServerOK, Issued, Token
<1>4. LoginOK /\ SlotsOK
  BY <1>2 DEF Types, LoginOK, SlotsOK, Held, Issued, Stray
<1>5. LockOK /\ ProfilesOK /\ RunsOK
  BY DEF LockOK, ProfilesOK, ProfileOK, RunsOK, RunOK
<1>6. PassesOK /\ FetchesOK
  BY DEF PassesOK, PassOK, FetchesOK, FetchOK, Renewing
<1> QED
  BY <1>2, <1>3, <1>4, <1>5, <1>6 DEF IInv

-----------------------------------------------------------------------------
(* Tokens that are held stay held.                                           *)

\* From m and p to m1 and p1: the server only issues, and a credential that is a
\* stray in the new profiles was one in the old, or is new.
Forward(m, p, m1, p1) ==
  /\ \A a \in Account : m[a] <= m1[a]
  /\ \A b \in Account : Stray(p1, b) =>
       (Stray(p, b) /\ p1[b].cred = p[b].cred) \/ ~Issued(m, p1[b].cred)

LEMMA IssuedStays ==
  ASSUME NEW m \in Minted, NEW m1 \in Minted, NEW t \in Token, Issued(m, t),
         \A a \in Account : m[a] <= m1[a]
  PROVE  Issued(m1, t)
<1>1. t[1] \in Account /\ t[2] \in 0 .. MaxMint
  BY DEF Token
<1>2. m[t[1]] \in Int /\ m1[t[1]] \in Int /\ t[2] \in Int
  BY <1>1, CustodyAssumption DEF Minted
<1> QED
  BY <1>1, <1>2 DEF Issued

LEMMA HeldStays ==
  ASSUME NEW m \in Minted, NEW m1 \in Minted, NEW p, NEW p1, NEW t, Held(m, p, t),
         Forward(m, p, m1, p1)
  PROVE  Held(m1, p1, t)
<1>1. Issued(m1, t)
  BY IssuedStays DEF Forward, Held
<1>2. ASSUME NEW b \in Account, Stray(p1, b) PROVE p1[b].cred # t
  BY <1>2 DEF Forward, Held
<1> QED
  BY <1>1, <1>2 DEF Held

LEMMA RunStays ==
  ASSUME NEW m \in Minted, NEW m1 \in Minted, NEW p, NEW p1, NEW r, RunOK(m, p, r),
         Forward(m, p, m1, p1)
  PROVE  RunOK(m1, p1, r)
  BY HeldStays DEF RunOK

LEMMA PassStays ==
  ASSUME NEW m \in Minted, NEW m1 \in Minted, NEW p, NEW p1, NEW g, NEW q, PassOK(m, p, g, q),
         Forward(m, p, m1, p1)
  PROVE  PassOK(m1, p1, g, q)
  BY HeldStays DEF PassOK

LEMMA FetchStays ==
  ASSUME NEW m \in Minted, NEW m1 \in Minted, NEW p, NEW p1, NEW q, NEW a, NEW f \in Fetch,
         FetchOK(m, p, q, a, f), Forward(m, p, m1, p1)
  PROVE  FetchOK(m1, p1, q, a, f)
<1>1. \A t \in f.owned : Issued(m1, t)
  BY IssuedStays DEF Fetch, FetchOK, Forward
<1> QED
  BY <1>1, HeldStays DEF FetchOK

\* A token the server issues is new, and whatever was issued stays so.
LEMMA Minting ==
  ASSUME NEW m \in Minted, NEW a \in Account, m[a] < MaxMint,
         NEW m1, m1 = [m EXCEPT ![a] = @ + 1]
  PROVE  /\ <<a, m[a] + 1>> \in Token /\ Owner(<<a, m[a] + 1>>) = a
         /\ ~Issued(m, <<a, m[a] + 1>>) /\ Issued(m1, <<a, m[a] + 1>>)
         /\ m1 \in Minted /\ \A b \in Account : m[b] <= m1[b]
         /\ m1 # m
<1> DEFINE n == m[a] + 1
<1>1. /\ \A b \in Account : m[b] \in Int /\ 0 <= m[b] /\ m[b] <= MaxMint
      /\ MaxMint \in Nat
  BY CustodyAssumption DEF Minted
<1>2. n \in 0 .. MaxMint /\ ~(n <= m[a])
  BY <1>1
<1>3. m1[a] = n /\ m1 \in Minted
  BY <1>1, <1>2 DEF Minted
<1>4. \A b \in Account : m[b] <= m1[b]
  BY <1>1, <1>2 DEF Minted
<1>5. m1 # m
  BY <1>1, <1>3
<1>6. <<a, n>> \in Token /\ Owner(<<a, n>>) = a
  BY <1>2 DEF Token, Owner
<1>7. ~Issued(m, <<a, n>>) /\ Issued(m1, <<a, n>>)
  BY <1>1, <1>2, <1>3 DEF Issued
<1> QED
  BY <1>3, <1>4, <1>5, <1>6, <1>7

\* A rotation of an issued token: the successor is new and of the same account.
LEMMA Rotation ==
  ASSUME Types, ServerOK, NEW t \in Token, Issued(minted, t), Rotate(t)
  PROVE  /\ Next1(t) \in Token /\ Owner(Next1(t)) = Owner(t)
         /\ ~Issued(minted, Next1(t)) /\ Issued(minted', Next1(t))
         /\ minted' \in Minted /\ \A b \in Account : minted[b] <= minted'[b]
         /\ minted' # minted /\ spent' \subseteq Token /\ expired' = expired
         /\ ServerOK'
<1>1. Owner(t) \in Account
  BY DEF Token, Owner
<1>2. /\ Next1(t) \in Token /\ Owner(Next1(t)) = Owner(t)
      /\ ~Issued(minted, Next1(t)) /\ Issued(minted', Next1(t))
      /\ minted' \in Minted /\ \A b \in Account : minted[b] <= minted'[b]
      /\ minted' # minted
  BY <1>1, Minting DEF Types, Rotate, Next1
<1>3. spent' = spent \cup {t} /\ expired' = expired
  BY DEF Rotate
<1>4. ASSUME NEW u \in spent' \cup expired' PROVE Issued(minted', u)
  <2>1. u \in Token /\ Issued(minted, u)
    BY <1>3, <1>4 DEF Types, ServerOK
  <2> QED
    BY <1>2, <2>1, IssuedStays DEF Types
<1> QED
  BY <1>2, <1>3, <1>4 DEF Types, ServerOK

\* What the server has just issued is held by nobody.
LEMMA FreshIsHeld ==
  ASSUME NEW m \in Minted, NEW m1 \in Minted, NEW p, NEW t \in Token,
         \A a \in Account : ProfileOK(m, p, a), ~Issued(m, t), Issued(m1, t)
  PROVE  Held(m1, p, t)
<1>1. \A b \in Account : Stray(p, b) => p[b].cred # t
  BY DEF Stray, ProfileOK
<1> QED
  BY <1>1 DEF Held

-----------------------------------------------------------------------------
(* The frame: what a step leaves alone keeps its part of the invariant.      *)

LEMMA Frame ==
  ASSUME IInv, Types', Forward(minted, prof, minted', prof'),
         ServerOK', LockOK', LoginOK', SlotsOK', ProfilesOK',
         \A l \in Launcher : run'[l] = run[l] \/ RunOK(minted', prof', run'[l]),
         \A c \in Collector : (pass'[c] = pass[c] /\ cfg' = cfg)
                                \/ PassOK(minted', prof', cfg', pass'[c]),
         \A c \in Collector, a \in Account :
           (pass'[c] = pass[c] /\ fetch'[c][a] = fetch[c][a])
             \/ FetchOK(minted', prof', pass'[c], a, fetch'[c][a])
  PROVE  IInv'
<1>1. minted \in Minted /\ minted' \in Minted
  BY DEF IInv, Types
<1>2. RunsOK'
  BY <1>1, RunStays DEF IInv, RunsOK
<1>3. PassesOK'
  BY <1>1, PassStays DEF IInv, PassesOK
<1>4. FetchesOK'
  <2>1. ASSUME NEW c \in Collector, NEW a \in Account
        PROVE  FetchOK(minted', prof', pass'[c], a, fetch'[c][a])
    <3>1. fetch[c][a] \in Fetch /\ FetchOK(minted, prof, pass[c], a, fetch[c][a])
      BY DEF IInv, Types, FetchesOK
    <3> QED
      BY <1>1, <3>1, FetchStays
  <2> QED
    BY <2>1 DEF FetchesOK
<1> QED
  BY <1>2, <1>3, <1>4 DEF IInv

\* Only the server moves on: the login, the slots and the profiles are as they were.
LEMMA StoreStays ==
  ASSUME IInv, minted' \in Minted, \A b \in Account : minted[b] <= minted'[b],
         UNCHANGED <<live, cfg, bk, prof>>
  PROVE  Forward(minted, prof, minted', prof') /\ LoginOK' /\ SlotsOK' /\ ProfilesOK'
<1>1. minted \in Minted
  BY DEF IInv, Types
<1>2. Forward(minted, prof, minted', prof')
  BY DEF Forward
<1>3. LoginOK' /\ SlotsOK'
  BY <1>1, <1>2, HeldStays DEF IInv, LoginOK, SlotsOK
<1>4. ASSUME NEW a \in Account PROVE ProfileOK(minted', prof', a)
  <2>1. prof[a].cred \in Token \cup {None} /\ ProfileOK(minted, prof, a)
    BY DEF IInv, Types, Profiles, Profile, MaybeToken, ProfilesOK
  <2> QED
    BY <1>1, <2>1, IssuedStays DEF ProfileOK
<1> QED
  BY <1>2, <1>3, <1>4 DEF ProfilesOK

\* A step of one collector that writes nothing: its pass becomes q, its fetches g.
LEMMA CollectorStep ==
  ASSUME IInv, NEW c \in Collector, NEW q \in Pass, NEW g \in [Account -> Fetch],
         pass' = [pass EXCEPT ![c] = q], fetch' = [fetch EXCEPT ![c] = g],
         UNCHANGED <<live, cfg, bk, prof, cc, lock, run>>,
         row' \in [Account -> [busy : BOOLEAN, dead : BOOLEAN]],
         minted' \in Minted, \A b \in Account : minted[b] <= minted'[b],
         spent' \subseteq Token, expired' \subseteq Token, ServerOK',
         PassOK(minted', prof, cfg, q),
         \A a \in Account : (q = pass[c] /\ g[a] = fetch[c][a]) \/ FetchOK(minted', prof, q, a, g[a])
  PROVE  IInv'
<1>1. Types /\ LockOK
  BY DEF IInv
<1>2. Types'
  BY <1>1 DEF Types
<1>3. LockOK'
  BY <1>1 DEF LockOK
<1>4. Forward(minted, prof, minted', prof') /\ LoginOK' /\ SlotsOK' /\ ProfilesOK'
  BY StoreStays
<1>5. /\ \A d \in Collector : pass'[d] = IF d = c THEN q ELSE pass[d]
      /\ \A d \in Collector : fetch'[d] = IF d = c THEN g ELSE fetch[d]
  BY <1>1 DEF Types
<1> QED
  BY <1>2, <1>3, <1>4, <1>5, Frame

\* The server does nothing.
LEMMA ServerIdle ==
  ASSUME IInv, UNCHANGED server
  PROVE  /\ minted' = minted /\ minted' \in Minted /\ \A b \in Account : minted[b] <= minted'[b]
         /\ spent' \subseteq Token /\ expired' \subseteq Token /\ ServerOK'
<1>1. Types /\ ServerOK /\ minted' = minted /\ spent' = spent /\ expired' = expired
  BY DEF IInv, server
<1>2. \A b \in Account : minted[b] <= minted[b]
  BY <1>1, CustodyAssumption DEF Types, Minted
<1> QED
  BY <1>1, <1>2 DEF Types, ServerOK

-----------------------------------------------------------------------------
(* The collector's steps.                                                    *)

\* Nothing is fetched outside the fetching phase.
LEMMA NotFetching ==
  ASSUME NEW m, NEW p, NEW q, NEW q1, NEW a, NEW f, FetchOK(m, p, q, a, f), q.st # "fetching"
  PROVE  FetchOK(m, p, q1, a, f)
  BY DEF FetchOK, Renewing

LEMMA NoFetchOK ==
  ASSUME NEW m, NEW p, NEW q, NEW a
  PROVE  NoFetch \in Fetch /\ FetchOK(m, p, q, a, NoFetch)
  BY DEF NoFetch, Fetch, FetchOK, Renewing, MaybeToken

LEMMA NoPassOK == NoPass \in Pass /\ \A m, p, g : PassOK(m, p, g, NoPass)
  BY DEF NoPass, Pass, PassOK, MaybeToken

\* BuildAccountsInfo's two reads.
LEMMA ReadCurrentStep ==
  ASSUME IInv, NEW c \in Collector, ReadCurrent(c)
  PROVE  IInv'
<1> DEFINE q == [NoPass EXCEPT !.st = "current", !.active = cfg]
<1>1. Types /\ ServerOK
  BY DEF IInv
<1>2. q \in Pass /\ PassOK(minted, prof, cfg, q)
  BY <1>1 DEF Types, NoPass, Pass, PassOK, MaybeToken
<1>3. pass' = [pass EXCEPT ![c] = q] /\ UNCHANGED <<live, cfg, bk, prof, cc, lock, row, server, fetch, run>>
  BY DEF ReadCurrent
<1>4. fetch[c] \in [Account -> Fetch] /\ fetch' = [fetch EXCEPT ![c] = fetch[c]]
  BY <1>1, <1>3 DEF Types
<1>5. \A a \in Account : FetchOK(minted, prof, q, a, fetch[c][a])
  BY NotFetching DEF ReadCurrent, IInv, FetchesOK
<1>6. /\ minted' = minted /\ minted' \in Minted /\ \A b \in Account : minted[b] <= minted'[b]
      /\ spent' \subseteq Token /\ expired' \subseteq Token /\ ServerOK'
  BY <1>3, ServerIdle
<1> HIDE DEF q
<1> QED
  BY <1>1, <1>2, <1>3, <1>4, <1>5, <1>6, CollectorStep DEF Types

LEMMA ReadCredentialsStep ==
  ASSUME IInv, NEW c \in Collector, ReadCredentials(c)
  PROVE  IInv'
<1> DEFINE cr == [a \in Account |-> IF a = pass[c].active THEN live ELSE bk[a]]
           q == [pass[c] EXCEPT !.st = "info", !.creds = cr]
<1>1. Types /\ ServerOK
  BY DEF IInv
<1>2. /\ cr \in [Account -> MaybeToken] /\ \A a \in Account : Held(minted, prof, cr[a])
      /\ \A a \in Account : a # pass[c].active => Owner(cr[a]) = a
  BY <1>1 DEF IInv, Types, LoginOK, SlotsOK, MaybeToken
<1>3. pass[c] \in Pass /\ PassOK(minted, prof, cfg, pass[c]) /\ pass[c].st = "current"
  BY <1>1 DEF IInv, Types, PassesOK, ReadCredentials
<1>4. pass' = [pass EXCEPT ![c] = q] /\ UNCHANGED <<live, cfg, bk, prof, cc, lock, row, server, fetch, run>>
  BY <1>1 DEF ReadCredentials, Types, Pass
<1> HIDE DEF cr
<1>5. q \in Pass /\ PassOK(minted, prof, cfg, q)
  BY <1>2, <1>3 DEF Pass, PassOK
<1>6. fetch[c] \in [Account -> Fetch] /\ fetch' = [fetch EXCEPT ![c] = fetch[c]]
  BY <1>1, <1>4 DEF Types
<1>7. \A a \in Account : FetchOK(minted, prof, q, a, fetch[c][a])
  BY <1>3, NotFetching DEF IInv, FetchesOK
<1>8. /\ minted' = minted /\ minted' \in Minted /\ \A b \in Account : minted[b] <= minted'[b]
      /\ spent' \subseteq Token /\ expired' \subseteq Token /\ ServerOK'
  BY <1>4, ServerIdle
<1> HIDE DEF q
<1> QED
  BY <1>1, <1>4, <1>5, <1>6, <1>7, <1>8, CollectorStep DEF Types

\* The reservation: what was won is fetched, or the pass ends.
LEMMA ReserveStep ==
  ASSUME IInv, NEW c \in Collector, Reserve(c)
  PROVE  IInv'
<1>1. Types /\ ServerOK
  BY DEF IInv
<1>2. PICK asked \in SUBSET Account :
       /\ row' = [a \in Account |-> IF a \in asked THEN [row[a] EXCEPT !.busy = TRUE] ELSE row[a]]
       /\ fetch' = [fetch EXCEPT ![c] = [a \in Account |->
                       IF a \in asked THEN [NoFetch EXCEPT !.st = "won"] ELSE NoFetch]]
       /\ pass' = IF asked = {} THEN [pass EXCEPT ![c] = NoPass] ELSE [pass EXCEPT ![c].st = "fetching"]
  BY DEF Reserve
<1> DEFINE g == [a \in Account |-> IF a \in asked THEN [NoFetch EXCEPT !.st = "won"] ELSE NoFetch]
           q == IF asked = {} THEN NoPass ELSE [pass[c] EXCEPT !.st = "fetching"]
<1>3. pass[c] \in Pass /\ PassOK(minted, prof, cfg, pass[c]) /\ pass[c].st = "info"
  BY <1>1 DEF IInv, Types, PassesOK, Reserve
<1>4. /\ UNCHANGED <<live, cfg, bk, prof, cc, lock, server, run>>
      /\ pass' = [pass EXCEPT ![c] = q] /\ fetch' = [fetch EXCEPT ![c] = g]
  BY <1>1, <1>2 DEF Reserve, Types, Pass
<1>5. q \in Pass /\ PassOK(minted, prof, cfg, q)
  <2>1. CASE asked = {}
    BY <2>1, NoPassOK
  <2>2. CASE asked # {}
    BY <1>3, <2>2 DEF Pass, PassOK
  <2> QED
    BY <2>1, <2>2
<1>6. ASSUME NEW a \in Account PROVE g[a] \in Fetch /\ FetchOK(minted, prof, q, a, g[a])
  <2>1. CASE a \notin asked
    BY <2>1, NoFetchOK
  <2>2. CASE a \in asked
    <3>1. q.st = "fetching"
      BY <1>3, <2>2 DEF Pass
    <3> HIDE DEF q
    <3> QED
      BY <2>2, <3>1 DEF NoFetch, Fetch, FetchOK, Renewing, MaybeToken
  <2> QED
    BY <2>1, <2>2
<1>7. row' \in [Account -> [busy : BOOLEAN, dead : BOOLEAN]]
  <2>1. ASSUME NEW a \in Account PROVE [row[a] EXCEPT !.busy = TRUE] \in [busy : BOOLEAN, dead : BOOLEAN]
    BY <1>1 DEF Types
  <2> QED
    BY <1>1, <1>2, <2>1 DEF Types
<1>8. g \in [Account -> Fetch]
  BY <1>6
<1>9. /\ minted' = minted /\ minted' \in Minted /\ \A b \in Account : minted[b] <= minted'[b]
      /\ spent' \subseteq Token /\ expired' \subseteq Token /\ ServerOK'
  BY <1>4, ServerIdle
<1> HIDE DEF q, g
<1> QED
  BY <1>1, <1>4, <1>5, <1>6, <1>7, <1>8, <1>9, CollectorStep DEF Types

\* The pass ends: Record, or the process dies.
LEMMA EndStep ==
  ASSUME IInv, NEW c \in Collector, Record(c) \/ CollectorDies(c)
  PROVE  IInv'
<1> DEFINE g == [a \in Account |-> NoFetch]
<1>1. Types /\ ServerOK
  BY DEF IInv
<1>2. /\ UNCHANGED <<live, cfg, bk, prof, cc, lock, server, run>>
      /\ pass' = [pass EXCEPT ![c] = NoPass] /\ fetch' = [fetch EXCEPT ![c] = g]
  BY DEF Record, CollectorDies
<1>3. row' \in [Account -> [busy : BOOLEAN, dead : BOOLEAN]]
  <2>1. ASSUME NEW a \in Account, NEW out
        PROVE  Recorded(row[a], out) \in [busy : BOOLEAN, dead : BOOLEAN]
    <3>1. row[a].dead \in BOOLEAN /\ row[a] \in [busy : BOOLEAN, dead : BOOLEAN]
      BY <1>1 DEF Types
    <3>2. (out # "ok" /\ (row[a].dead \/ out = "invalid_grant")) \in BOOLEAN
      OBVIOUS
    <3> QED
      BY <3>1, <3>2 DEF Recorded
  <2>2. CASE row' = row
    BY <1>1, <2>2 DEF Types
  <2>3. CASE row' = [a \in Account |-> Recorded(row[a], fetch[c][a].out)]
    BY <2>1, <2>3
  <2> QED
    BY <2>2, <2>3 DEF Record, CollectorDies
<1>4. NoPass \in Pass /\ PassOK(minted, prof, cfg, NoPass)
  BY NoPassOK
<1>5. \A a \in Account : g[a] \in Fetch /\ FetchOK(minted, prof, NoPass, a, g[a])
  BY NoFetchOK
<1>6. g \in [Account -> Fetch]
  BY <1>5
<1>7. /\ minted' = minted /\ minted' \in Minted /\ \A b \in Account : minted[b] <= minted'[b]
      /\ spent' \subseteq Token /\ expired' \subseteq Token /\ ServerOK'
  BY <1>2, ServerIdle
<1> HIDE DEF g
<1> QED
  BY <1>1, <1>2, <1>3, <1>4, <1>5, <1>6, <1>7, CollectorStep DEF Types

\* A step of one fetch that writes nothing: it becomes f.
LEMMA FetchStep ==
  ASSUME IInv, NEW c \in Collector, NEW a \in Account, NEW f \in Fetch, SetFetch(c, a, f),
         UNCHANGED <<live, cfg, bk, prof, cc, lock, row, pass, run>>,
         minted' \in Minted, \A b \in Account : minted[b] <= minted'[b],
         spent' \subseteq Token, expired' \subseteq Token, ServerOK',
         FetchOK(minted', prof, pass[c], a, f)
  PROVE  IInv'
<1> DEFINE g == [fetch[c] EXCEPT ![a] = f]
<1>1. Types
  BY DEF IInv
<1>2. g \in [Account -> Fetch] /\ fetch' = [fetch EXCEPT ![c] = g]
  BY <1>1 DEF Types, SetFetch
<1>3. pass[c] \in Pass /\ pass' = [pass EXCEPT ![c] = pass[c]]
  BY <1>1 DEF Types
<1>4. PassOK(minted', prof, cfg, pass[c])
  BY <1>1, PassStays, StoreStays DEF IInv, PassesOK, Types
<1>5. \A b \in Account : g[b] = fetch[c][b] \/ FetchOK(minted', prof, pass[c], b, g[b])
  BY <1>1 DEF Types
<1> HIDE DEF g
<1> QED
  BY <1>1, <1>2, <1>3, <1>4, <1>5, CollectorStep DEF Types

\* What a fetch that goes on has, by its phase.
LEMMA FetchFacts ==
  ASSUME IInv, NEW c \in Collector, NEW a \in Account
  PROVE  /\ fetch[c][a] \in Fetch /\ pass[c] \in Pass
         /\ FetchOK(minted, prof, pass[c], a, fetch[c][a])
         /\ PassOK(minted, prof, cfg, pass[c])
  BY DEF IInv, Types, FetchesOK, PassesOK

\* Ending a fetch, persisting and retrying keep its tokens.
LEMMA FetchMovesOn ==
  ASSUME NEW m, NEW p, NEW q, NEW a, NEW f \in Fetch, FetchOK(m, p, q, a, f)
  PROVE  /\ f.st # "none" => \A o \in {"none", "sentinel", "invalid_grant", "error", "ok"} :
               Done(f, o) \in Fetch /\ FetchOK(m, p, q, a, Done(f, o))
         /\ f.st \in {"persist1", "persist2"} => \A k \in BOOLEAN :
               Persisted(f, k) \in Fetch /\ FetchOK(m, p, q, a, Persisted(f, k))
         /\ f.st = "usage1" /\ f.may =>
               [f EXCEPT !.st = "refresh2"] \in Fetch /\ FetchOK(m, p, q, a, [f EXCEPT !.st = "refresh2"])
         /\ f.st = "refresh1" =>
               [f EXCEPT !.st = "usage1"] \in Fetch /\ FetchOK(m, p, q, a, [f EXCEPT !.st = "usage1"])
<1>1. ASSUME NEW o \in {"none", "sentinel", "invalid_grant", "error", "ok"}, f.st # "none"
      PROVE  Done(f, o) \in Fetch /\ FetchOK(m, p, q, a, Done(f, o))
  BY <1>1 DEF Fetch, FetchOK, Done, Renewing
<1>2. ASSUME NEW k \in BOOLEAN, f.st \in {"persist1", "persist2"}
      PROVE  Persisted(f, k) \in Fetch /\ FetchOK(m, p, q, a, Persisted(f, k))
  BY <1>2 DEF Fetch, FetchOK, Persisted, Renewing
<1>3. ASSUME f.st = "usage1", f.may
      PROVE  [f EXCEPT !.st = "refresh2"] \in Fetch /\ FetchOK(m, p, q, a, [f EXCEPT !.st = "refresh2"])
  BY <1>3 DEF Fetch, FetchOK, Renewing
<1>4. ASSUME f.st = "refresh1"
      PROVE  [f EXCEPT !.st = "usage1"] \in Fetch /\ FetchOK(m, p, q, a, [f EXCEPT !.st = "usage1"])
  BY <1>4 DEF Fetch, FetchOK, Renewing
<1> QED
  BY <1>1, <1>2, <1>3, <1>4

\* The steps of a fetch in which the server rotates nothing.
LEMMA AnsweredStep ==
  ASSUME IInv, NEW c \in Collector, NEW a \in Account,
         \/ RefreshInvalid(c, a) \/ PersistTimesOut(c, a)
         \/ UsageOk(c, a) \/ Usage401(c, a) \/ UsageFails(c, a)
  PROVE  IInv'
<1> DEFINE f == fetch[c][a]
<1>1. /\ f \in Fetch /\ FetchOK(minted, prof, pass[c], a, f)
      /\ UNCHANGED <<live, cfg, bk, prof, cc, lock, row, server, pass, run>>
  BY FetchFacts DEF RefreshInvalid, PersistTimesOut, UsageOk, Usage401, UsageFails
<1>2. f.active \in BOOLEAN
  BY <1>1 DEF Fetch
<1>3. PICK n \in Fetch : SetFetch(c, a, n) /\ FetchOK(minted, prof, pass[c], a, n)
  <2>1. CASE RefreshInvalid(c, a)
    BY <1>1, <2>1, FetchMovesOn DEF RefreshInvalid, Refreshing
  <2>2. CASE PersistTimesOut(c, a)
    BY <1>1, <1>2, <2>2, FetchMovesOn DEF PersistTimesOut
  <2>3. CASE UsageOk(c, a)
    BY <1>1, <2>3, FetchMovesOn DEF UsageOk, Outcome
  <2>4. CASE UsageFails(c, a)
    BY <1>1, <2>4, FetchMovesOn DEF UsageFails, Outcome
  <2>5. CASE Usage401(c, a)
    BY <1>1, <2>5, FetchMovesOn DEF Usage401, Outcome
  <2> QED
    BY <2>1, <2>2, <2>3, <2>4, <2>5
<1> HIDE DEF f
<1> QED
  BY <1>1, <1>3, ServerIdle, FetchStep

\* Client.Refresh succeeds, or its answer is lost.
LEMMA RefreshStep ==
  ASSUME IInv, NEW c \in Collector, NEW a \in Account, RefreshOk(c, a) \/ RefreshLost(c, a)
  PROVE  IInv'
<1> DEFINE f == fetch[c][a]
<1>1. /\ f \in Fetch /\ FetchOK(minted, prof, pass[c], a, f)
      /\ UNCHANGED <<live, cfg, bk, prof, cc, lock, row, pass, run>>
      /\ f.st \in {"refresh1", "refresh2"} /\ Types /\ ServerOK /\ expired \subseteq Token
  BY FetchFacts DEF RefreshOk, RefreshLost, Refreshing, IInv, Types
<1>2. /\ f.tok \in Token /\ f.orig \in Token /\ Issued(minted, f.tok) /\ f.may
      /\ Owner(f.tok) = a /\ Owner(f.orig) = a /\ pass[c].st = "fetching"
      /\ Held(minted, prof, f.orig) /\ \A t \in f.owned : Issued(minted, t)
  BY <1>1 DEF FetchOK, Held, Renewing
<1>3. CASE RefreshOk(c, a)
  <2> DEFINE n == [f EXCEPT !.tok = Next1(f.tok), !.st = IF f.st = "refresh1" THEN "persist1" ELSE "persist2"]
  <2>1. SetFetch(c, a, n) /\ Rotate(f.tok)
    BY <1>3 DEF RefreshOk
  <2>2. /\ Next1(f.tok) \in Token /\ Owner(Next1(f.tok)) = a
        /\ ~Issued(minted, Next1(f.tok)) /\ Issued(minted', Next1(f.tok))
        /\ minted' \in Minted /\ \A b \in Account : minted[b] <= minted'[b]
        /\ spent' \subseteq Token /\ expired' = expired /\ ServerOK'
    BY <1>1, <1>2, <2>1, Rotation
  <2>3. Held(minted', prof, Next1(f.tok))
    BY <2>2, FreshIsHeld DEF IInv, ProfilesOK, Types
  <2>4. Forward(minted, prof, minted', prof) /\ minted \in Minted
    BY <1>1, <2>2, StoreStays DEF IInv, Types
  <2>5. Held(minted', prof, f.orig) /\ \A t \in f.owned : Issued(minted', t)
    BY <1>1, <1>2, <2>2, <2>4, HeldStays, IssuedStays DEF Fetch
  <2>6. Next1(f.tok) \notin f.owned
    BY <1>2, <2>2
  <2> HIDE DEF f
  <2>7. /\ n \in Fetch /\ n.tok = Next1(f.tok) /\ n.orig = f.orig /\ n.owned = f.owned
        /\ n.may = f.may /\ n.st \in {"persist1", "persist2"}
    BY <1>1, <2>2 DEF Fetch, MaybeToken
  <2> HIDE DEF n
  <2>8. FetchOK(minted', prof, pass[c], a, n)
    BY <1>2, <2>2, <2>3, <2>5, <2>6, <2>7 DEF FetchOK, Renewing
  <2> QED
    BY <1>1, <2>1, <2>2, <2>7, <2>8, FetchStep
<1>4. CASE RefreshLost(c, a)
  <2>1. PICK n \in Fetch : SetFetch(c, a, n) /\ FetchOK(minted, prof, pass[c], a, n)
    BY <1>1, <1>4, FetchMovesOn DEF RefreshLost
  <2>2. /\ minted' \in Minted /\ \A b \in Account : minted[b] <= minted'[b]
        /\ spent' \subseteq Token /\ expired' \subseteq Token /\ ServerOK'
    BY <1>1, <1>2, <1>4, Rotation, ServerIdle DEF RefreshLost
  <2>3. Forward(minted, prof, minted', prof) /\ minted \in Minted
    BY <1>1, <2>2, StoreStays DEF IInv, Types
  <2>4. FetchOK(minted', prof, pass[c], a, n)
    BY <2>1, <2>2, <2>3, FetchStays
  <2> HIDE DEF f
  <2> QED
    BY <1>1, <2>1, <2>2, <2>4, FetchStep
<1> QED
  BY <1>3, <1>4

\* A registered Claude Code holds only issued tokens.
LEMMA OwnedIssued ==
  ASSUME IInv
  PROVE  OwnedTokens \subseteq Token /\ \A t \in OwnedTokens : Issued(minted, t)
<1>1. live \in Token /\ Issued(minted, live)
  BY DEF IInv, LoginOK, Held
<1>2. ASSUME NEW b \in Account, LoginHolds(b)
      PROVE  prof[b].cred \in Token /\ Issued(minted, prof[b].cred)
  BY <1>2 DEF IInv, Types, Profiles, Profile, MaybeToken, LoginHolds, ProfilesOK, ProfileOK
<1> QED
  BY <1>1, <1>2 DEF OwnedTokens

\* A fetch begins: a token that may be refreshed is held and the slot's own, and in a
\* pass that was not overtaken it is no registered Claude Code's.
LEMMA StartStep ==
  ASSUME IInv, NEW c \in Collector, NEW a \in Account, NEW t, NEW may \in BOOLEAN,
         NEW active \in BOOLEAN, Start(c, a, t, may, active), pass[c].st = "fetching",
         t \in Token, may => Held(minted, prof, t) /\ Owner(t) = a,
         may /\ ~pass[c].moved => t \notin OwnedTokens,
         UNCHANGED <<live, cfg, bk, prof, cc, lock, row, server, pass, run>>
  PROVE  IInv'
<1> DEFINE n == [st |-> IF may /\ IsOAuthTokenExpired(t) THEN "refresh1" ELSE "usage1",
                 tok |-> t, orig |-> t, active |-> active, may |-> may, skipped |-> FALSE,
                 out |-> "none", owned |-> OwnedTokens]
<1>1. OwnedTokens \subseteq Token /\ \A u \in OwnedTokens : Issued(minted, u)
  BY OwnedIssued
<1>2. n \in Fetch
  BY <1>1 DEF Fetch, MaybeToken
<1>3. FetchOK(minted, prof, pass[c], a, n)
  BY <1>1 DEF FetchOK, Renewing
<1>4. SetFetch(c, a, n)
  BY DEF Start
<1> HIDE DEF n
<1> QED
  BY <1>2, <1>3, <1>4, ServerIdle, FetchStep

LEMMA SentinelStep ==
  ASSUME IInv, NEW c \in Collector, NEW a \in Account, SetFetch(c, a, Done(NoFetch, "sentinel")),
         pass[c].st = "fetching", UNCHANGED <<live, cfg, bk, prof, cc, lock, row, server, pass, run>>
  PROVE  IInv'
<1> DEFINE n == Done(NoFetch, "sentinel")
<1>1. SetFetch(c, a, n) /\ n \in Fetch /\ FetchOK(minted, prof, pass[c], a, n)
  BY DEF Done, NoFetch, Fetch, FetchOK, Renewing, MaybeToken
<1> HIDE DEF n
<1> QED
  BY <1>1, ServerIdle, FetchStep

\* fetchAccountUsage and fetchActiveUsage choose the credential and who may refresh it.
LEMMA RouteStep ==
  ASSUME IInv, NEW c \in Collector, NEW a \in Account, Route(c, a)
  PROVE  IInv'
<1> DEFINE t == pass[c].creds[a]
<1>1. /\ UNCHANGED <<live, cfg, bk, prof, cc, lock, row, server, pass, run>>
      /\ pass[c].st = "fetching" /\ pass[c].moved \in BOOLEAN
      /\ t \in Token /\ Held(minted, prof, t) /\ (a # pass[c].active => Owner(t) = a)
      /\ ~pass[c].moved => pass[c].active = cfg
  BY FetchFacts DEF Route, FetchOK, PassOK, Pass, Held
<1>2. \A b \in Account : b # a /\ prof[b].cred # None /\ Owner(t) = a => prof[b].cred # t
  BY <1>1 DEF Held, Stray
<1>3. ASSUME NEW sf \in BOOLEAN, a = pass[c].active, FetchActiveUsage(c, a, t, sf) PROVE IInv'
  <2> DEFINE ro == ActiveCCRunning(sf) \/ LiveSession(a) \/ Unattributed(a, t)
  <2>1. CASE ro /\ IsOAuthTokenExpired(t)
    BY <1>1, <1>3, <2>1, SentinelStep DEF FetchActiveUsage
  <2>2. CASE ~(ro /\ IsOAuthTokenExpired(t))
    <3>1. Start(c, a, t, ~ro, TRUE)
      BY <1>3, <2>2 DEF FetchActiveUsage
    <3>2. ~ro => Owner(t) = a
      BY DEF IInv, SlotsOK, Unattributed
    <3>3. ~ro => t \notin OwnedTokens
      BY <1>2, <3>2 DEF ActiveCCRunning, OwnedTokens, LoginHolds
    <3>4. (~ro) \in BOOLEAN
      OBVIOUS
    <3> HIDE DEF t, ro
    <3> QED
      BY <1>1, <3>1, <3>2, <3>3, <3>4, StartStep
  <2> QED
    BY <2>1, <2>2
<1>4. ASSUME a # pass[c].active, FetchInactiveUsage(c, a) PROVE IInv'
  <2> DEFINE own == prof[a].cred # None /\ ~SessionIdentityDrifted(a)
             se == LiveSession(a) /\ ~(prof[a].cred # None /\ SessionIdentityDrifted(a))
  <2>1. CASE own /\ ~IsOAuthTokenExpired(prof[a].cred)
    <3>1. Start(c, a, prof[a].cred, FALSE, FALSE)
      BY <1>4, <2>1 DEF FetchInactiveUsage
    <3>2. prof[a].cred \in Token
      BY <2>1 DEF IInv, Types, Profiles, Profile, MaybeToken
    <3> QED
      BY <1>1, <3>1, <3>2, StartStep
  <2>2. CASE own /\ se /\ IsOAuthTokenExpired(prof[a].cred)
    BY <1>1, <1>4, <2>2, SentinelStep DEF FetchInactiveUsage
  <2>3. CASE ~(own /\ ~IsOAuthTokenExpired(prof[a].cred)) /\ ~(own /\ se)
    <3>1. Start(c, a, t, ~se, FALSE)
      BY <1>4, <2>3 DEF FetchInactiveUsage
    <3>2. ~pass[c].moved => live # t
      BY <1>1, <1>4 DEF IInv, LoginOK
    <3>3. ~se /\ LiveSession(a) /\ LoginHolds(a) => prof[a].cred # t
      BY <1>1, <1>4 DEF LoginHolds, SessionIdentityDrifted
    <3>4. ~se /\ ~pass[c].moved => t \notin OwnedTokens
      BY <1>1, <1>2, <1>4, <3>2, <3>3 DEF OwnedTokens, LoginHolds
    <3>5. (~se) \in BOOLEAN
      OBVIOUS
    <3> HIDE DEF t, se
    <3> QED
      BY <1>1, <1>4, <3>1, <3>4, <3>5, StartStep
  <2> QED
    BY <2>1, <2>2, <2>3
<1> QED
  BY <1>3, <1>4 DEF Route

-----------------------------------------------------------------------------
(* Writing the store.                                                        *)

\* A write of a backup leaves the profiles as they are, but for a credential removed.
Shrinks(p, p1) ==
  /\ p1 \in Profiles
  /\ \A b \in Account : p1[b].ident = p[b].ident /\ p1[b].cred \in {p[b].cred, None}

LEMMA PostBackupWriteShrinks ==
  ASSUME NEW p \in Profiles, NEW a \in Account
  PROVE  /\ Shrinks(p, p) /\ Shrinks(p, InvalidateSessionCredentials(p, a))
         /\ Shrinks(p, PostBackupWrite(p, a))
<1>1. Shrinks(p, p) /\ Shrinks(p, InvalidateSessionCredentials(p, a)) /\ Shrinks(p, MarkStale(p, a))
  BY DEF Shrinks, Profiles, Profile, MaybeToken, InvalidateSessionCredentials, MarkStale
<1> QED
  BY <1>1 DEF PostBackupWrite

LEMMA ShrinkingKeeps ==
  ASSUME NEW p \in Profiles, NEW p1, Shrinks(p, p1)
  PROVE  /\ \A m, t : Held(m, p, t) => Held(m, p1, t)
         /\ \A m, a : a \in Account /\ ProfileOK(m, p, a) => ProfileOK(m, p1, a)
         /\ \A m \in Minted, m1 \in Minted :
              (\A a \in Account : m[a] <= m1[a]) => Forward(m, p, m1, p1)
<1>1. \A b \in Account : Stray(p1, b) => Stray(p, b) /\ p1[b].cred = p[b].cred
  BY DEF Shrinks, Stray
<1> QED
  BY <1>1 DEF Held, ProfileOK, Forward, Shrinks

LEMMA ProfilesShrink ==
  ASSUME IInv, Shrinks(prof, prof'), minted' \in Minted, \A b \in Account : minted[b] <= minted'[b]
  PROVE  Forward(minted, prof, minted', prof') /\ ProfilesOK'
<1>1. prof \in Profiles /\ minted \in Minted
  BY DEF IInv, Types
<1>2. ASSUME NEW a \in Account PROVE ProfileOK(minted', prof, a)
  <2>1. prof[a].cred \in Token \cup {None} /\ ProfileOK(minted, prof, a)
    BY DEF IInv, Types, Profiles, Profile, MaybeToken, ProfilesOK
  <2> QED
    BY <1>1, <2>1, IssuedStays DEF ProfileOK
<1> QED
  BY <1>1, <1>2, ShrinkingKeeps DEF ProfilesOK

\* WriteAccountCredentials with a token of the slot's own.
LEMMA BackupWrite ==
  ASSUME IInv, NEW a \in Account, NEW t, WriteAccountCredentials(a, t),
         minted' \in Minted, \A b \in Account : minted[b] <= minted'[b],
         Held(minted', prof, t), Owner(t) = a
  PROVE  /\ Forward(minted, prof, minted', prof') /\ SlotsOK' /\ ProfilesOK'
         /\ bk' \in [Account -> Token] /\ prof' \in Profiles
         /\ \A m, u : Held(m, prof, u) => Held(m, prof', u)
<1>1. prof \in Profiles /\ minted \in Minted /\ bk \in [Account -> Token]
  BY DEF IInv, Types
<1>2. Shrinks(prof, prof') /\ bk' = [bk EXCEPT ![a] = t]
  BY <1>1, PostBackupWriteShrinks DEF WriteAccountCredentials
<1>3. Forward(minted, prof, minted', prof') /\ ProfilesOK'
  BY <1>2, ProfilesShrink
<1>4. \A m, u : Held(m, prof, u) => Held(m, prof', u)
  BY <1>1, <1>2, ShrinkingKeeps
<1>5. SlotsOK'
  <2>1. ASSUME NEW b \in Account PROVE Held(minted', prof', bk'[b]) /\ Owner(bk'[b]) = b
    <3>1. CASE b = a
      BY <1>1, <1>2, <1>4, <3>1
    <3>2. CASE b # a
      BY <1>1, <1>2, <1>3, <3>2, HeldStays DEF IInv, SlotsOK
    <3> QED
      BY <3>1, <3>2
  <2> QED
    BY <2>1 DEF SlotsOK
<1>6. bk' \in [Account -> Token]
  BY <1>1, <1>2 DEF Held
<1> QED
  BY <1>2, <1>3, <1>4, <1>5, <1>6 DEF Shrinks

\* persist, of the live account and of another.
LEMMA PersistStep ==
  ASSUME IInv, NEW c \in Collector, NEW a \in Account, Persist(c, a)
  PROVE  IInv'
<1> DEFINE f == fetch[c][a]
<1>1. /\ f \in Fetch /\ FetchOK(minted, prof, pass[c], a, f)
      /\ UNCHANGED <<cfg, cc, lock, row, server, pass, run>>
      /\ f.st \in {"persist1", "persist2"}
  BY FetchFacts DEF Persist
<1>2. /\ Held(minted, prof, f.tok) /\ Owner(f.tok) = a /\ Owner(f.orig) = a
  BY <1>1 DEF FetchOK, Renewing
<1>3. PICK n \in Fetch : SetFetch(c, a, n) /\ FetchOK(minted, prof, pass[c], a, n)
  BY <1>1, FetchMovesOn DEF Persist, PersistActive, PersistInactive
<1>4. /\ minted' = minted /\ minted' \in Minted /\ \A b \in Account : minted[b] <= minted'[b]
      /\ spent' \subseteq Token /\ expired' \subseteq Token /\ ServerOK'
  BY <1>1, ServerIdle
<1>5. \/ UNCHANGED <<live, bk, prof>>
      \/ live' = f.tok /\ live = f.orig /\ UNCHANGED <<bk, prof>>
      \/ live' = f.tok /\ live = f.orig /\ WriteAccountCredentials(a, f.tok)
      \/ UNCHANGED live /\ WriteAccountCredentials(a, f.tok)
  BY DEF Persist, PersistActive, PersistInactive
<1>6. Types /\ LockOK /\ LoginOK /\ SlotsOK /\ ProfilesOK /\ prof \in Profiles
  BY DEF IInv, Types
<1>7. /\ Forward(minted, prof, minted', prof') /\ SlotsOK' /\ ProfilesOK'
      /\ bk' \in [Account -> Token] /\ prof' \in Profiles
      /\ \A m, u : Held(m, prof, u) => Held(m, prof', u)
  <2>1. CASE UNCHANGED <<bk, prof>>
    <3>1. SlotsOK' /\ ProfilesOK'
      BY <1>4, <1>6, <2>1 DEF SlotsOK, ProfilesOK
    <3>2. Forward(minted, prof, minted', prof')
      BY <1>4, <2>1 DEF Forward
    <3> QED
      BY <1>6, <2>1, <3>1, <3>2 DEF Types
  <2>2. CASE WriteAccountCredentials(a, f.tok)
    BY <1>2, <1>4, <2>2, BackupWrite
  <2> QED
    BY <1>5, <2>1, <2>2
<1>8. live' \in Token /\ LoginOK'
  <2>1. CASE live' = live
    BY <1>1, <1>4, <1>6, <1>7, <2>1 DEF LoginOK, Types
  <2>2. CASE live' = f.tok /\ live = f.orig
    BY <1>1, <1>2, <1>4, <1>6, <1>7, <2>2 DEF LoginOK, Held
  <2> QED
    BY <1>5, <2>1, <2>2
<1>9. Types'
  <2>1. fetch' \in [Collector -> [Account -> Fetch]]
    BY <1>3, <1>6 DEF Types, SetFetch
  <2> QED
    BY <1>1, <1>4, <1>6, <1>7, <1>8, <2>1 DEF Types
<1>10. LockOK'
  BY <1>1, <1>6 DEF LockOK
<1>11. \A d \in Collector, b \in Account : fetch'[d][b] = IF d = c /\ b = a THEN n ELSE fetch[d][b]
  BY <1>3, <1>6 DEF Types, SetFetch
<1>12. FetchOK(minted', prof', pass'[c], a, n)
  <2>1. minted \in Minted
    BY <1>6 DEF Types
  <2> QED
    BY <1>1, <1>3, <1>4, <1>7, <2>1, FetchStays
<1> HIDE DEF f
<1> QED
  BY <1>1, <1>4, <1>7, <1>8, <1>9, <1>10, <1>11, <1>12, Frame

-----------------------------------------------------------------------------
(* The launcher's steps.                                                     *)

LEMMA LauncherStep ==
  ASSUME IInv, NEW l \in Launcher, NEW r \in Run, run' = [run EXCEPT ![l] = r],
         UNCHANGED <<live, cfg, cc, row, pass, fetch>>,
         minted' \in Minted, spent' \subseteq Token, expired' \subseteq Token, ServerOK',
         bk' \in [Account -> Token], prof' \in Profiles,
         Forward(minted, prof, minted', prof'), SlotsOK', ProfilesOK', RunOK(minted', prof', r),
         (lock' = l) = (r.st \in {"refresh", "seed"}),
         \A k \in Launcher : k # l => (lock' = k) = (lock = k),
         lock' \in Launcher \cup {None}
  PROVE  IInv'
<1>1. Types /\ LockOK /\ LoginOK /\ minted \in Minted
  BY DEF IInv, Types
<1>2. \A k \in Launcher : run'[k] = IF k = l THEN r ELSE run[k]
  BY <1>1 DEF Types
<1>3. Types'
  BY <1>1 DEF Types
<1>4. LockOK'
  BY <1>1, <1>2 DEF LockOK
<1>5. LoginOK'
  BY <1>1, HeldStays DEF LoginOK
<1> QED
  BY <1>2, <1>3, <1>4, <1>5, Frame

\* One that leaves the server and the backups alone.
LEMMA LauncherProfileStep ==
  ASSUME IInv, NEW l \in Launcher, NEW r \in Run, run' = [run EXCEPT ![l] = r],
         UNCHANGED <<live, cfg, bk, cc, row, server, pass, fetch>>,
         prof' \in Profiles, Forward(minted, prof, minted, prof'), ProfilesOK',
         RunOK(minted, prof', r),
         (lock' = l) = (r.st \in {"refresh", "seed"}),
         \A k \in Launcher : k # l => (lock' = k) = (lock = k),
         lock' \in Launcher \cup {None}
  PROVE  IInv'
<1>1. /\ minted' = minted /\ minted' \in Minted /\ \A b \in Account : minted[b] <= minted'[b]
      /\ spent' \subseteq Token /\ expired' \subseteq Token /\ ServerOK'
  BY ServerIdle
<1>2. bk' \in [Account -> Token] /\ SlotsOK'
  BY <1>1, HeldStays DEF IInv, Types, SlotsOK
<1> QED
  BY <1>1, <1>2, LauncherStep

\* One that leaves the profiles alone too.
LEMMA LauncherOnlyStep ==
  ASSUME IInv, NEW l \in Launcher, NEW r \in Run, run' = [run EXCEPT ![l] = r],
         UNCHANGED <<live, cfg, bk, prof, cc, row, server, pass, fetch>>,
         RunOK(minted, prof, r),
         (lock' = l) = (r.st \in {"refresh", "seed"}),
         \A k \in Launcher : k # l => (lock' = k) = (lock = k),
         lock' \in Launcher \cup {None}
  PROVE  IInv'
<1>1. /\ minted' = minted /\ minted' \in Minted /\ \A b \in Account : minted[b] <= minted'[b]
  BY ServerIdle
<1>2. Forward(minted, prof, minted, prof') /\ ProfilesOK' /\ prof' \in Profiles
  BY <1>1, StoreStays DEF IInv, Types
<1> QED
  BY <1>1, <1>2, LauncherProfileStep

LEMMA LauncherFacts ==
  ASSUME IInv, NEW l \in Launcher
  PROVE  /\ run[l] \in Run /\ RunOK(minted, prof, run[l]) /\ run \in [Launcher -> Run]
         /\ (lock = l) = (run[l].st \in {"refresh", "seed"}) /\ lock \in Launcher \cup {None}
         /\ NoRun \in Run /\ RunOK(minted, prof, NoRun) /\ RunOK(minted', prof', NoRun)
         /\ NoRun.st \notin {"refresh", "seed"} /\ None \notin Launcher
<1>1. /\ run[l] \in Run /\ RunOK(minted, prof, run[l]) /\ run \in [Launcher -> Run]
      /\ (lock = l) = (run[l].st \in {"refresh", "seed"}) /\ lock \in Launcher \cup {None}
  BY DEF IInv, Types, RunsOK, LockOK
<1>2. /\ NoRun \in Run /\ RunOK(minted, prof, NoRun) /\ RunOK(minted', prof', NoRun)
      /\ NoRun.st \notin {"refresh", "seed"}
  BY DEF NoRun, Run, RunOK, MaybeToken
<1> QED
  BY <1>1, <1>2, CustodyAssumption

\* The steps before the lock is taken, the registration and the end.
LEMMA LaunchSteps ==
  ASSUME IInv, NEW l \in Launcher,
         \/ \E a \in Account : Launch(l, a)
         \/ CheckProfile(l) \/ LockTimesOut(l) \/ Register(l) \/ Gone(l)
  PROVE  IInv'
<1>1. /\ run[l] \in Run /\ RunOK(minted, prof, run[l])
      /\ (lock = l) = (run[l].st \in {"refresh", "seed"}) /\ lock \in Launcher \cup {None}
      /\ NoRun \in Run /\ RunOK(minted, prof, NoRun)
      /\ NoRun.st \notin {"refresh", "seed"} /\ None \notin Launcher
  BY LauncherFacts
<1>2. UNCHANGED <<live, cfg, bk, prof, cc, row, server, pass, fetch>>
  BY DEF Launch, CheckProfile, LockTimesOut, Register, Gone
<1>3. /\ \A k \in Launcher : k # l => (lock' = k) = (lock = k)
      /\ lock' \in Launcher \cup {None}
  BY <1>1 DEF Launch, CheckProfile, LockTimesOut, Register, Gone
<1> DEFINE Becomes(r) == /\ r \in Run /\ run' = [run EXCEPT ![l] = r] /\ RunOK(minted, prof, r)
                         /\ lock' # l /\ r.st \notin {"refresh", "seed"}
<1>4. \E r : Becomes(r)
  <2>1. ASSUME NEW a \in Account, Launch(l, a) PROVE \E r : Becomes(r)
    <3> DEFINE r == [NoRun EXCEPT !.st = "check", !.acct = a]
    <3>1. r \in Run /\ RunOK(minted, prof, r) /\ r.st = "check"
      BY DEF NoRun, Run, RunOK, MaybeToken
    <3>2. run' = [run EXCEPT ![l] = r] /\ run[l].st = "idle" /\ lock' = lock
      BY <2>1 DEF Launch, SetRun
    <3>3. Becomes(r)
      BY <1>1, <3>1, <3>2
    <3> QED
      BY <3>3
  <2>2. CASE CheckProfile(l)
    <3>1. PICK x \in {"exec", "wait"} : run' = [run EXCEPT ![l] = [run[l] EXCEPT !.st = x]]
      BY <2>2 DEF CheckProfile, SetRun
    <3> DEFINE r == [run[l] EXCEPT !.st = x]
    <3>2. run[l].st = "check" /\ lock' = lock
      BY <2>2 DEF CheckProfile
    <3>3. r \in Run /\ RunOK(minted, prof, r) /\ r.st = x
      BY <1>1, <3>2 DEF Run, RunOK
    <3>4. Becomes(r)
      BY <1>1, <3>1, <3>2, <3>3
    <3> QED
      BY <3>4
  <2>3. CASE LockTimesOut(l) \/ Gone(l)
    <3>1. Becomes(NoRun)
      BY <1>1, <2>3 DEF LockTimesOut, Gone, SetRun
    <3> QED
      BY <3>1
  <2>4. CASE Register(l)
    <3> DEFINE r == [run[l] EXCEPT !.st = "live", !.cred = None]
    <3>1. run' = [run EXCEPT ![l] = r] /\ run[l].st = "exec" /\ lock' = lock
      BY <2>4 DEF Register, SetRun
    <3>2. r \in Run /\ RunOK(minted, prof, r) /\ r.st = "live"
      BY <1>1, <3>1 DEF Run, RunOK, MaybeToken
    <3>3. Becomes(r)
      BY <1>1, <3>1, <3>2
    <3> QED
      BY <3>3
  <2> QED
    BY <2>1, <2>2, <2>3, <2>4
<1>5. PICK r : Becomes(r)
  BY <1>4
<1>6. (lock' = l) = (r.st \in {"refresh", "seed"}) /\ r \in Run
      /\ run' = [run EXCEPT ![l] = r] /\ RunOK(minted, prof, r)
  BY <1>5
<1> HIDE DEF Becomes
<1> QED
  BY <1>2, <1>3, <1>6, LauncherOnlyStep

\* SetupSession under the lock.
LEMMA SetupStep ==
  ASSUME IInv, NEW l \in Launcher, SetupLocked(l)
  PROVE  IInv'
<1> DEFINE a == run[l].acct
           begin == [run[l] EXCEPT !.st = "refresh", !.cred = bk[a]]
<1>1. /\ run[l] \in Run /\ RunOK(minted, prof, run[l])
      /\ (lock = l) = (run[l].st \in {"refresh", "seed"}) /\ lock \in Launcher \cup {None}
      /\ NoRun \in Run /\ RunOK(minted', prof', NoRun)
      /\ NoRun.st \notin {"refresh", "seed"} /\ None \notin Launcher
  BY LauncherFacts
<1>2. /\ a \in Account /\ run[l].st = "wait" /\ lock = None
      /\ UNCHANGED <<live, cfg, bk, cc, row, server, pass, fetch>>
  BY <1>1 DEF RunOK, SetupLocked
<1>3. /\ minted' = minted /\ minted' \in Minted /\ \A b \in Account : minted[b] <= minted'[b]
  BY <1>2, ServerIdle
<1>4. prof \in Profiles /\ Shrinks(prof, prof')
  BY <1>2, PostBackupWriteShrinks DEF SetupLocked, IInv, Types
<1>5. /\ Forward(minted, prof, minted, prof') /\ ProfilesOK' /\ prof' \in Profiles
      /\ \A m, u : Held(m, prof, u) => Held(m, prof', u)
  BY <1>3, <1>4, ProfilesShrink, ShrinkingKeeps DEF Shrinks
<1>6. bk[a] \in Token /\ Held(minted, prof, bk[a]) /\ Owner(bk[a]) = a
  BY <1>2 DEF IInv, Types, SlotsOK
<1>7. PICK r \in Run : /\ run' = [run EXCEPT ![l] = r] /\ RunOK(minted, prof', r)
                       /\ lock' = IF r.st \in {"refresh", "seed"} THEN l ELSE None
  <2>1. CASE run' = [run EXCEPT ![l] = begin] /\ lock' = l
    <3>1. begin \in Run /\ begin.st = "refresh" /\ begin.cred = bk[a] /\ begin.acct = a
      BY <1>1, <1>6 DEF Run, MaybeToken
    <3> HIDE DEF begin
    <3>2. RunOK(minted, prof', begin)
      BY <1>2, <1>5, <1>6, <3>1 DEF RunOK
    <3> QED
      BY <2>1, <3>1, <3>2
  <2>2. CASE run' = [run EXCEPT ![l] = NoRun] /\ lock' = lock
    BY <1>1, <1>2, <1>3, <2>2
  <2>3. CASE run' = [run EXCEPT ![l] = [run[l] EXCEPT !.st = "exec"]] /\ lock' = lock
    <3> DEFINE r == [run[l] EXCEPT !.st = "exec"]
    <3>1. r \in Run /\ RunOK(minted, prof', r) /\ r.st = "exec"
      BY <1>1, <1>2 DEF Run, RunOK
    <3> HIDE DEF r
    <3> QED
      BY <1>2, <2>3, <3>1 DEF r
  <2> QED
    BY <2>1, <2>2, <2>3 DEF SetupLocked, SetRun
<1>8. (lock' = l) = (r.st \in {"refresh", "seed"}) /\ lock' \in Launcher \cup {None}
      /\ \A k \in Launcher : k # l => (lock' = k) = (lock = k)
  BY <1>1, <1>2, <1>7
<1> QED
  BY <1>2, <1>5, <1>7, <1>8, LauncherProfileStep

\* bootstrap's refresh.
LEMMA BootstrapStep ==
  ASSUME IInv, NEW l \in Launcher, BootstrapRefresh(l)
  PROVE  IInv'
<1> DEFINE r == run[l]
           seed == [r EXCEPT !.st = "seed"]
           renewed == [seed EXCEPT !.cred = Next1(r.cred)]
<1>1. /\ r \in Run /\ RunOK(minted, prof, r) /\ run \in [Launcher -> Run]
      /\ (lock = l) = (r.st \in {"refresh", "seed"}) /\ lock \in Launcher \cup {None}
      /\ NoRun \in Run /\ RunOK(minted', prof', NoRun)
      /\ NoRun.st \notin {"refresh", "seed"} /\ None \notin Launcher
  BY LauncherFacts
<1>2. /\ r.st = "refresh" /\ lock = l /\ UNCHANGED <<live, cfg, cc, row, pass, fetch>>
      /\ r.acct \in Account /\ Held(minted, prof, r.cred) /\ Owner(r.cred) = r.acct
  BY <1>1 DEF RunOK, BootstrapRefresh
<1>3. r.cred \in Token /\ Issued(minted, r.cred) /\ Types /\ ServerOK /\ minted \in Minted
  BY <1>2 DEF Held, IInv, Types
<1>4. /\ minted' \in Minted /\ \A b \in Account : minted[b] <= minted'[b]
      /\ spent' \subseteq Token /\ expired' \subseteq Token /\ ServerOK'
  <2>1. CASE Rotate(r.cred)
    BY <1>3, <2>1, Rotation DEF Types
  <2>2. CASE UNCHANGED server
    BY <2>2, ServerIdle
  <2> QED
    BY <2>1, <2>2 DEF BootstrapRefresh
<1>5. seed \in Run /\ seed.st = "seed" /\ seed.cred = r.cred /\ seed.acct = r.acct
  BY <1>1 DEF Run
<1>6. CASE /\ Rotate(r.cred) /\ WriteAccountCredentials(r.acct, Next1(r.cred))
           /\ run' = [run EXCEPT ![l] = renewed] /\ lock' = lock
  <2>1. /\ Next1(r.cred) \in Token /\ Owner(Next1(r.cred)) = r.acct
        /\ ~Issued(minted, Next1(r.cred)) /\ Issued(minted', Next1(r.cred))
    BY <1>2, <1>3, <1>6, Rotation
  <2>2. Held(minted', prof, Next1(r.cred))
    BY <1>3, <1>4, <2>1, FreshIsHeld DEF IInv, ProfilesOK
  <2>3. /\ Forward(minted, prof, minted', prof') /\ SlotsOK' /\ ProfilesOK'
        /\ bk' \in [Account -> Token] /\ prof' \in Profiles
        /\ Held(minted', prof', Next1(r.cred))
    BY <1>2, <1>4, <1>6, <2>1, <2>2, BackupWrite
  <2>4. /\ renewed \in Run /\ renewed.st = "seed" /\ renewed.cred = Next1(r.cred)
        /\ renewed.acct = r.acct
    BY <1>1, <2>1 DEF Run, MaybeToken
  <2> HIDE DEF renewed
  <2>5. RunOK(minted', prof', renewed)
    BY <1>2, <2>1, <2>3, <2>4 DEF RunOK
  <2> QED
    BY <1>1, <1>2, <1>4, <1>6, <2>3, <2>4, <2>5, LauncherStep
<1>7. CASE UNCHANGED <<bk, prof>>
  <2>1. /\ Forward(minted, prof, minted', prof') /\ SlotsOK' /\ ProfilesOK'
        /\ bk' \in [Account -> Token] /\ prof' \in Profiles
    BY <1>2, <1>4, <1>7, StoreStays DEF IInv, Types
  <2>2. CASE run' = [run EXCEPT ![l] = NoRun] /\ lock' = None
    <3>1. (lock' = l) = (NoRun.st \in {"refresh", "seed"})
      BY <1>1, <2>2
    <3>2. \A k \in Launcher : k # l => (lock' = k) = (lock = k)
      BY <1>1, <1>2, <2>2
    <3> QED
      BY <1>1, <1>2, <1>4, <2>1, <2>2, <3>1, <3>2, LauncherStep
  <2>3. CASE run' = [run EXCEPT ![l] = seed] /\ lock' = lock
    <3>1. RunOK(minted', prof', seed)
      BY <1>2, <1>3, <1>4, <1>5, <2>1, HeldStays DEF RunOK
    <3> HIDE DEF seed
    <3> QED
      BY <1>1, <1>2, <1>4, <1>5, <2>1, <2>3, <3>1, LauncherStep
  <2> QED
    BY <1>7, <2>2, <2>3, <1>6 DEF BootstrapRefresh, SetRun
<1> QED
  BY <1>6, <1>7 DEF BootstrapRefresh, SetRun

\* The profile gets a credential of the slot's own account, under a login.
LEMMA ProfileSeeded ==
  ASSUME IInv, NEW a \in Account, NEW t, Held(minted, prof, t), Owner(t) = a, NEW p1,
         p1 = [prof EXCEPT ![a].cred = t, ![a].ident = a]
           \/ (prof[a].ident # None /\ p1 = [prof EXCEPT ![a].cred = t])
  PROVE  /\ p1 \in Profiles /\ Forward(minted, prof, minted, p1)
         /\ \A b \in Account : ProfileOK(minted, p1, b)
<1>1. prof \in Profiles /\ t \in Token /\ Issued(minted, t) /\ minted \in Minted
  BY DEF IInv, Types, Held
<1>2. p1 \in Profiles /\ p1[a].cred = t /\ p1[a].ident # None
  BY <1>1, CustodyAssumption DEF Profiles, Profile, MaybeToken
<1>3. \A b \in Account : b # a => p1[b] = prof[b]
  BY <1>1 DEF Profiles
<1>4. \A b \in Account : Stray(p1, b) => Stray(prof, b) /\ p1[b].cred = prof[b].cred
  BY <1>2, <1>3 DEF Stray
<1>5. \A b \in Account : minted[b] <= minted[b]
  BY <1>1, CustodyAssumption DEF Minted
<1>6. \A b \in Account : ProfileOK(minted, p1, b)
  BY <1>1, <1>2, <1>3 DEF ProfileOK, IInv, ProfilesOK
<1> QED
  BY <1>2, <1>4, <1>5, <1>6 DEF Forward

\* bootstrap's writes into the profile.
LEMMA SeedStep ==
  ASSUME IInv, NEW l \in Launcher, Seed(l)
  PROVE  IInv'
<1> DEFINE r == run[l]
           a == r.acct
           ex == [r EXCEPT !.st = "exec"]
<1>1. /\ r \in Run /\ RunOK(minted, prof, r) /\ run \in [Launcher -> Run]
      /\ (lock = l) = (r.st \in {"refresh", "seed"}) /\ lock \in Launcher \cup {None}
      /\ NoRun \in Run /\ RunOK(minted', prof', NoRun)
      /\ NoRun.st \notin {"refresh", "seed"} /\ None \notin Launcher
  BY LauncherFacts
<1>2. /\ r.st = "seed" /\ lock = l /\ lock' = None
      /\ UNCHANGED <<live, cfg, bk, cc, row, server, pass, fetch>>
      /\ a \in Account /\ Held(minted, prof, r.cred) /\ Owner(r.cred) = a
  BY <1>1 DEF RunOK, Seed
<1>3. /\ minted' = minted /\ minted \in Minted /\ \A b \in Account : minted[b] <= minted[b]
  BY <1>2, ServerIdle
<1>4. ex \in Run /\ ex.st = "exec" /\ ex.acct = a
  BY <1>1 DEF Run
<1>5. RunOK(minted, prof', ex)
  <2> HIDE DEF ex
  <2> QED
    BY <1>2, <1>4 DEF RunOK
<1>6. /\ prof' \in Profiles /\ Forward(minted, prof, minted, prof')
      /\ \A b \in Account : ProfileOK(minted, prof', b)
  <2>1. CASE \/ prof' = [prof EXCEPT ![a].cred = r.cred, ![a].ident = a]
             \/ prof[a].ident # None /\ prof' = [prof EXCEPT ![a].cred = r.cred]
    BY <1>2, <2>1, ProfileSeeded
  <2>2. CASE prof' = prof
    BY <1>2, <1>3, <2>2, StoreStays DEF IInv, Types, ProfilesOK
  <2>3. CASE prof' = [prof EXCEPT ![a] = NoProfile]
    <3>1. prof' \in Profiles /\ prof'[a].cred = None /\ \A b \in Account : b # a => prof'[b] = prof[b]
      BY <2>3, <1>2 DEF IInv, Types, Profiles, Profile, NoProfile, MaybeToken
    <3> QED
      BY <1>3, <3>1 DEF Forward, Stray, ProfileOK, IInv, ProfilesOK
  <2> QED
    BY <2>1, <2>2, <2>3 DEF Seed
<1>7. ProfilesOK'
  BY <1>3, <1>6 DEF ProfilesOK
<1>8. \A k \in Launcher : k # l => (lock' = k) = (lock = k)
  BY <1>1, <1>2
<1>9. CASE run' = [run EXCEPT ![l] = ex]
  <2>1. (lock' = l) = (ex.st \in {"refresh", "seed"})
    BY <1>1, <1>2, <1>4
  <2> HIDE DEF ex
  <2> QED
    BY <1>2, <1>4, <1>5, <1>6, <1>7, <1>8, <1>9, <2>1, LauncherProfileStep
<1>10. CASE run' = [run EXCEPT ![l] = NoRun]
  <2>1. (lock' = l) = (NoRun.st \in {"refresh", "seed"})
    BY <1>1, <1>2
  <2> QED
    BY <1>1, <1>2, <1>3, <1>6, <1>7, <1>8, <1>10, <2>1, LauncherProfileStep
<1> QED
  BY <1>9, <1>10 DEF Seed, SetRun

-----------------------------------------------------------------------------
(* Claude Code, the user and time.                                           *)

\* A step that moves no actor, but for the mark that a live login overtook a pass.
LEMMA EnvironmentStep ==
  ASSUME IInv, UNCHANGED <<lock, run, fetch>>, (UNCHANGED <<pass, cfg>>) \/ Moved,
         live' \in Token, cfg' \in Account, bk' \in [Account -> Token], prof' \in Profiles,
         cc' \in BOOLEAN, row' \in [Account -> [busy : BOOLEAN, dead : BOOLEAN]],
         minted' \in Minted, spent' \subseteq Token, expired' \subseteq Token, ServerOK',
         Forward(minted, prof, minted', prof'), LoginOK', SlotsOK', ProfilesOK'
  PROVE  IInv'
<1>1. Types /\ LockOK /\ minted \in Minted
  BY DEF IInv, Types
<1>2. LockOK'
  BY <1>1 DEF LockOK
<1>3. CASE UNCHANGED <<pass, cfg>>
  <2>1. Types'
    BY <1>1, <1>3 DEF Types
  <2> QED
    BY <1>2, <1>3, <2>1, Frame
<1>4. CASE Moved
  <2>1. ASSUME NEW c \in Collector
        PROVE  /\ pass'[c] \in Pass /\ PassOK(minted', prof', cfg', pass'[c])
               /\ \A a \in Account : FetchOK(minted', prof', pass'[c], a, fetch'[c][a])
    <3> DEFINE q == pass[c]
               n == [q EXCEPT !.moved = (q.st # "idle")]
    <3>1. q \in Pass /\ PassOK(minted', prof', cfg, q)
      BY <1>1, PassStays DEF Types, IInv, PassesOK
    <3>2. \A a \in Account : FetchOK(minted', prof', q, a, fetch[c][a])
      BY <1>1, FetchStays DEF Types, IInv, FetchesOK
    <3>3. pass'[c] = n
      BY <1>4 DEF Moved
    <3> HIDE DEF q
    <3>4. /\ n \in Pass /\ n.st = q.st /\ n.creds = q.creds /\ n.active = q.active
          /\ n.moved = (n.st # "idle")
      BY <3>1 DEF Pass
    <3> HIDE DEF n
    <3>5. PassOK(minted', prof', cfg', n)
      BY <3>1, <3>4 DEF PassOK
    <3>6. ASSUME NEW a \in Account PROVE FetchOK(minted', prof', n, a, fetch[c][a])
      BY <3>2, <3>4 DEF FetchOK, Renewing
    <3> QED
      BY <3>3, <3>4, <3>5, <3>6
  <2>2. pass' \in [Collector -> Pass]
    BY <1>4, <2>1 DEF Moved
  <2>3. Types'
    BY <1>1, <2>2 DEF Types
  <2> QED
    BY <1>2, <2>1, <2>3, Frame
<1> QED
  BY <1>3, <1>4

\* Claude Code starts and stops, an access token runs out, a row falls due.
LEMMA TimeSteps ==
  ASSUME IInv,
         \/ ClaudeToggles \/ \E a \in Account : RowFallsDue(a)
         \/ \E t \in Token : TokenExpires(t)
  PROVE  IInv'
<1>1. Types /\ ServerOK /\ minted' = minted /\ UNCHANGED <<live, cfg, bk, prof, lock, run, fetch, pass, spent>>
  BY DEF IInv, ClaudeToggles, RowFallsDue, TokenExpires, Rest, server
<1>2. minted \in Minted /\ \A b \in Account : minted[b] <= minted[b]
  BY <1>1, CustodyAssumption DEF Types, Minted
<1>3. Forward(minted, prof, minted', prof') /\ LoginOK' /\ SlotsOK' /\ ProfilesOK'
  BY <1>1, <1>2, StoreStays
<1>4. expired' \subseteq Token /\ ServerOK'
  BY <1>1 DEF Types, ServerOK, ClaudeToggles, RowFallsDue, TokenExpires, server, Issued, Owner
<1>5. cc' \in BOOLEAN
  BY <1>1 DEF Types, ClaudeToggles, RowFallsDue, TokenExpires, Rest
<1>6. row' \in [Account -> [busy : BOOLEAN, dead : BOOLEAN]]
  BY <1>1 DEF Types, ClaudeToggles, RowFallsDue, TokenExpires, Rest
<1> QED
  BY <1>1, <1>2, <1>3, <1>4, <1>5, <1>6, EnvironmentStep DEF Types

\* Claude Code refreshes the live login.
LEMMA ClaudeRefreshesStep ==
  ASSUME IInv, ClaudeRefreshes
  PROVE  IInv'
<1>1. /\ Types /\ ServerOK /\ Rotate(live) /\ live' = Next1(live) /\ live \in Token
      /\ Issued(minted, live) /\ Owner(live) = cfg /\ minted \in Minted
      /\ UNCHANGED <<cfg, bk, prof, cc, lock, run, fetch, pass, row>>
  BY DEF IInv, Types, LoginOK, Held, ClaudeRefreshes, Rest
<1>2. /\ live' \in Token /\ Owner(live') = cfg
      /\ ~Issued(minted, live') /\ Issued(minted', live')
      /\ minted' \in Minted /\ \A b \in Account : minted[b] <= minted'[b]
      /\ spent' \subseteq Token /\ expired' = expired /\ ServerOK'
  BY <1>1, Rotation
<1>3. LoginOK'
  BY <1>1, <1>2, FreshIsHeld DEF LoginOK, IInv, ProfilesOK
<1>4. Forward(minted, prof, minted', prof')
  BY <1>1, <1>2 DEF Forward
<1>5. SlotsOK'
  BY <1>1, <1>2, <1>4, HeldStays DEF IInv, SlotsOK
<1>6. ProfilesOK'
  BY <1>1, <1>2, ProfilesShrink, PostBackupWriteShrinks DEF Types
<1> QED
  BY <1>1, <1>2, <1>3, <1>4, <1>5, <1>6, EnvironmentStep DEF Types

\* A session's own refresh or /login brings a new token into its profile.
LEMMA SessionSteps ==
  ASSUME IInv, NEW a \in Account, SessionRefreshes(a) \/ \E b \in Account : SessionLogin(a, b)
  PROVE  IInv'
<1>1. /\ Types /\ ServerOK /\ minted \in Minted /\ prof \in Profiles
      /\ UNCHANGED <<live, cfg, bk, cc, lock, run, fetch, pass, row>>
  BY DEF IInv, Types, SessionRefreshes, SessionLogin, Rest
<1> DEFINE Arrives(t) ==
        /\ prof'[a].cred = t /\ prof' \in Profiles /\ \A b \in Account : b # a => prof'[b] = prof[b]
        /\ ~Issued(minted, t) /\ Issued(minted', t)
        /\ prof'[a].ident # None /\ (prof'[a].ident = a => Owner(t) = a)
        /\ minted' \in Minted /\ \A b \in Account : minted[b] <= minted'[b]
        /\ spent' \subseteq Token /\ expired' = expired /\ ServerOK'
<1>2. \E t \in Token : Arrives(t)
  <2>1. CASE SessionRefreshes(a)
    <3> DEFINE u == prof[a].cred
    <3>1. /\ u \in Token /\ Issued(minted, u) /\ prof[a].ident # None
          /\ prof[a].ident = a => Owner(u) = a
      BY <1>1, <2>1 DEF SessionRefreshes, IInv, ProfilesOK, ProfileOK, Profiles, Profile, MaybeToken
    <3>2. Rotate(u) /\ prof' = [prof EXCEPT ![a].cred = Next1(u)]
      BY <2>1 DEF SessionRefreshes
    <3>3. /\ Next1(u) \in Token /\ Owner(Next1(u)) = Owner(u)
          /\ ~Issued(minted, Next1(u)) /\ Issued(minted', Next1(u))
          /\ minted' \in Minted /\ \A b \in Account : minted[b] <= minted'[b]
          /\ spent' \subseteq Token /\ expired' = expired /\ ServerOK'
      BY <1>1, <3>1, <3>2, Rotation
    <3>4. /\ prof'[a].cred = Next1(u) /\ prof'[a].ident = prof[a].ident /\ prof' \in Profiles
          /\ \A b \in Account : b # a => prof'[b] = prof[b]
      BY <1>1, <3>2, <3>3 DEF Profiles, Profile, MaybeToken
    <3>5. Arrives(Next1(u))
      BY <3>1, <3>3, <3>4
    <3> QED
      BY <3>3, <3>5
  <2>2. ASSUME NEW b \in Account, SessionLogin(a, b) PROVE \E t \in Token : Arrives(t)
    <3> DEFINE t == <<b, minted[b] + 1>>
    <3>1. SignIn(b) /\ prof' = [prof EXCEPT ![a].cred = t, ![a].ident = b]
      BY <2>2 DEF SessionLogin
    <3>2. /\ t \in Token /\ Owner(t) = b /\ ~Issued(minted, t) /\ Issued(minted', t)
          /\ minted' \in Minted /\ \A d \in Account : minted[d] <= minted'[d]
      BY <1>1, <3>1, Minting DEF SignIn
    <3>3. spent' \subseteq Token /\ expired' = expired /\ ServerOK'
      <4>1. spent' = spent /\ expired' = expired
        BY <3>1 DEF SignIn
      <4> QED
        BY <1>1, <3>2, <4>1, IssuedStays DEF ServerOK, Types
    <3> HIDE DEF t
    <3>4. /\ prof'[a].cred = t /\ prof'[a].ident = b /\ prof' \in Profiles
          /\ \A d \in Account : d # a => prof'[d] = prof[d]
      BY <1>1, <3>1, <3>2 DEF Profiles, Profile, MaybeToken
    <3>5. Arrives(t)
      BY <3>2, <3>3, <3>4, CustodyAssumption
    <3> QED
      BY <3>2, <3>5
  <2> QED
    BY <2>1, <2>2
<1>3. PICK t \in Token : Arrives(t)
  BY <1>2
<1>4. Forward(minted, prof, minted', prof')
  BY <1>3 DEF Forward, Stray
<1>5. LoginOK' /\ SlotsOK'
  BY <1>1, <1>3, <1>4, HeldStays DEF IInv, LoginOK, SlotsOK
<1>6. ASSUME NEW b \in Account PROVE ProfileOK(minted', prof', b)
  <2>1. CASE b = a
    BY <1>3, <2>1 DEF ProfileOK
  <2>2. CASE b # a
    <3>1. prof[b].cred \in Token \cup {None} /\ ProfileOK(minted, prof, b)
      BY <1>1 DEF IInv, Profiles, Profile, MaybeToken, ProfilesOK
    <3> QED
      BY <1>1, <1>3, <2>2, <3>1, IssuedStays DEF ProfileOK
  <2> QED
    BY <2>1, <2>2
<1>7. ProfilesOK'
  BY <1>6 DEF ProfilesOK
<1> QED
  BY <1>1, <1>3, <1>4, <1>5, <1>7, EnvironmentStep DEF Types

\* /login in Claude Code.
LEMMA LoginStep ==
  ASSUME IInv, NEW a \in Account, Login(a)
  PROVE  IInv'
<1> DEFINE t == <<a, minted[a] + 1>>
<1>1. /\ Types /\ ServerOK /\ SignIn(a) /\ live' = t /\ cfg' = a /\ Moved /\ minted \in Minted
      /\ UNCHANGED <<bk, prof, cc, lock, row, fetch, run>>
  BY DEF IInv, Types, Login
<1>2. /\ t \in Token /\ Owner(t) = a /\ ~Issued(minted, t) /\ Issued(minted', t)
      /\ minted' \in Minted /\ \A d \in Account : minted[d] <= minted'[d]
  BY <1>1, Minting DEF SignIn
<1>3. spent' \subseteq Token /\ expired' \subseteq Token /\ ServerOK'
  <2>1. spent' = spent /\ expired' = expired
    BY <1>1 DEF SignIn
  <2> QED
    BY <1>1, <1>2, <2>1, IssuedStays DEF ServerOK, Types
<1> HIDE DEF t
<1>4. LoginOK'
  BY <1>1, <1>2, FreshIsHeld DEF LoginOK, IInv, ProfilesOK
<1>5. Forward(minted, prof, minted', prof')
  BY <1>1, <1>2 DEF Forward
<1>6. SlotsOK'
  BY <1>1, <1>2, <1>5, HeldStays DEF IInv, SlotsOK
<1>7. ProfilesOK'
  BY <1>1, <1>2, ProfilesShrink, PostBackupWriteShrinks DEF Types
<1> QED
  BY <1>1, <1>2, <1>3, <1>4, <1>5, <1>6, <1>7, EnvironmentStep DEF Types

\* cswap add, and a switch.
LEMMA AddStep ==
  ASSUME IInv, Add
  PROVE  IInv'
<1>1. /\ Types /\ WriteAccountCredentials(cfg, live) /\ cfg \in Account
      /\ Held(minted, prof, live) /\ Owner(live) = cfg
      /\ UNCHANGED <<live, cfg, cc, lock, server, pass, fetch, run>>
  BY DEF IInv, Types, LoginOK, Add
<1>2. /\ minted' = minted /\ minted' \in Minted /\ \A b \in Account : minted[b] <= minted'[b]
      /\ spent' \subseteq Token /\ expired' \subseteq Token /\ ServerOK'
  BY <1>1, ServerIdle
<1>3. /\ Forward(minted, prof, minted', prof') /\ SlotsOK' /\ ProfilesOK'
      /\ bk' \in [Account -> Token] /\ prof' \in Profiles
      /\ \A m, u : Held(m, prof, u) => Held(m, prof', u)
  BY <1>1, <1>2, BackupWrite
<1>4. LoginOK'
  BY <1>1, <1>2, <1>3 DEF LoginOK
<1>5. row' \in [Account -> [busy : BOOLEAN, dead : BOOLEAN]]
  BY <1>1 DEF Add, Types
<1> QED
  BY <1>1, <1>2, <1>3, <1>4, <1>5, EnvironmentStep DEF Types

LEMMA SwitchStep ==
  ASSUME IInv, NEW b \in Account, SwitchTo(b)
  PROVE  IInv'
<1>1. /\ Types /\ WriteAccountCredentials(cfg, live) /\ cfg \in Account
      /\ Held(minted, prof, live) /\ Owner(live) = cfg
      /\ Held(minted, prof, bk[b]) /\ Owner(bk[b]) = b /\ bk[b] \in Token
      /\ live' = bk[b] /\ cfg' = b /\ Moved /\ UNCHANGED <<cc, lock, row, server, fetch, run>>
  BY DEF IInv, Types, LoginOK, SlotsOK, SwitchTo
<1>2. /\ minted' = minted /\ minted' \in Minted /\ \A d \in Account : minted[d] <= minted'[d]
      /\ spent' \subseteq Token /\ expired' \subseteq Token /\ ServerOK'
  BY <1>1, ServerIdle
<1>3. /\ Forward(minted, prof, minted', prof') /\ SlotsOK' /\ ProfilesOK'
      /\ bk' \in [Account -> Token] /\ prof' \in Profiles
      /\ \A m, u : Held(m, prof, u) => Held(m, prof', u)
  BY <1>1, <1>2, BackupWrite
<1>4. LoginOK'
  BY <1>1, <1>2, <1>3 DEF LoginOK
<1> QED
  BY <1>1, <1>2, <1>3, <1>4, EnvironmentStep DEF Types

-----------------------------------------------------------------------------
(* The theorems.                                                             *)

LEMMA NextIInv == IInv /\ [Next]_vars => IInv'
<1> SUFFICES ASSUME IInv, [Next]_vars PROVE IInv'
  OBVIOUS
<1>1. CASE UNCHANGED vars
  BY <1>1 DEF vars, IInv, Types, ServerOK, LockOK, LoginOK, SlotsOK, ProfilesOK, RunsOK, PassesOK,
              FetchesOK
<1>2. ASSUME NEW c \in Collector, CollectorNext(c) PROVE IInv'
  BY <1>2, ReadCurrentStep, ReadCredentialsStep, ReserveStep, EndStep, RouteStep, RefreshStep,
     PersistStep, AnsweredStep DEF CollectorNext
<1>3. ASSUME NEW l \in Launcher, LauncherNext(l) PROVE IInv'
  BY <1>3, LaunchSteps, SetupStep, BootstrapStep, SeedStep DEF LauncherNext
<1>4. CASE Environment
  BY <1>4, TimeSteps, ClaudeRefreshesStep, SessionSteps, LoginStep, AddStep, SwitchStep
     DEF Environment
<1> QED
  BY <1>1, <1>2, <1>3, <1>4 DEF Next

LEMMA Inductive == Spec => []IInv
  BY InitIInv, NextIInv, PTL DEF Spec

\* In every reachable state the variables have their types, no token is held that the
\* server has not issued, and the store lock is held exactly by the launcher between its
\* read of the backup and the end of its bootstrap.
THEOREM TypeCorrect == Spec => []TypeOK
<1>1. IInv => TypeOK
  <2> SUFFICES ASSUME IInv PROVE TypeOK
    OBVIOUS
  <2>1. Types /\ ServerOK /\ LockOK /\ Issued(minted, live)
    BY DEF IInv, LoginOK, Held
  <2> QED
    BY <2>1 DEF TypeOK, Types, ServerOK, LockOK, Issued, Owner, Minted, Profiles, Profile, MaybeToken
<1> QED
  BY <1>1, Inductive, PTL

\* A slot's backup is always a token of the slot's own account, whatever a switch, a
\* /login or another collector did between a collector's reads and its persist.
THEOREM SlotsStayOwn == Spec => []SlotsHoldOwnTokens
<1>1. IInv => SlotsHoldOwnTokens
  BY DEF IInv, SlotsOK, SlotsHoldOwnTokens
<1> QED
  BY <1>1, Inductive, PTL

\* A collector never asks the server to rotate a token that a registered Claude Code
\* held when the fetch was routed, unless a switch or a /login overtook its pass.
THEOREM OwnersKeep == Spec => []OwnersKeepTheirToken
<1>1. IInv => OwnersKeepTheirToken
  <2> SUFFICES ASSUME IInv, NEW c \in Collector, NEW a \in Account, Refreshing(c, a), ~pass[c].moved
               PROVE  fetch[c][a].tok \notin fetch[c][a].owned
    BY DEF OwnersKeepTheirToken
  <2> QED
    BY FetchFacts DEF Refreshing, FetchOK, Renewing
<1> QED
  BY <1>1, Inductive, PTL

\* A write of a backup and an invalidation leave a live session its credential.
LEMMA LiveIsSpared ==
  ASSUME IInv, NEW a \in Account, NEW b \in Account, LiveSession(a)
  PROVE  /\ \A t : WriteAccountCredentials(b, t) => prof'[a].cred = prof[a].cred
         /\ ~LiveSession(b) => InvalidateSessionCredentials(prof, b)[a].cred = prof[a].cred
<1>1. prof \in [Account -> Profile]
  BY DEF IInv, Types, Profiles
<1>2. MarkStale(prof, b)[a].cred = prof[a].cred
  BY <1>1 DEF MarkStale, Profile
<1>3. ~LiveSession(b) => InvalidateSessionCredentials(prof, b)[a].cred = prof[a].cred
  BY <1>1 DEF InvalidateSessionCredentials, Profile
<1> QED
  BY <1>2, <1>3 DEF WriteAccountCredentials, PostBackupWrite

\* While Claude Code is registered in a profile its credential changes only by its own
\* hand, or when a bootstrap seeds a profile that it found invalid.
THEOREM LiveSessionKeeps == Spec => LiveSessionKeepsCredential
<1> DEFINE Kept(a) == LiveSession(a) /\ prof'[a].cred # prof[a].cred =>
                        \/ server' # server /\ prof'[a].cred # None
                        \/ \E l \in Launcher : run[l].st = "seed" /\ run[l].acct = a
<1>1. IInv /\ [Next]_vars => [\A a \in Account : Kept(a)]_vars
  <2> SUFFICES ASSUME IInv, Next, NEW a \in Account, LiveSession(a),
                      prof'[a].cred # prof[a].cred
               PROVE  \/ server' # server /\ prof'[a].cred # None
                      \/ \E l \in Launcher : run[l].st = "seed" /\ run[l].acct = a
    BY DEF vars
  <2>1. ASSUME NEW b \in Account, NEW t, WriteAccountCredentials(b, t) PROVE FALSE
    BY <2>1, LiveIsSpared
  <2>2. ASSUME NEW c \in Collector, CollectorNext(c) PROVE FALSE
    BY <2>2, <2>1 DEF CollectorNext, ReadCurrent, ReadCredentials, Reserve, Record, CollectorDies,
       Route, RefreshOk, RefreshInvalid, RefreshLost, Persist, PersistActive, PersistInactive,
       PersistTimesOut, UsageOk, Usage401, UsageFails
  <2>3. ASSUME NEW l \in Launcher, LauncherNext(l), ~Seed(l) PROVE FALSE
    <3>1. run[l].st # "idle" => run[l].acct \in Account
      BY LauncherFacts DEF RunOK
    <3>2. CASE SetupLocked(l)
      BY <3>1, <3>2, LiveIsSpared DEF SetupLocked, StaleApplies
    <3>3. CASE BootstrapRefresh(l)
      BY <2>1, <3>1, <3>3 DEF BootstrapRefresh
    <3> QED
      BY <2>3, <3>2, <3>3 DEF LauncherNext, Launch, CheckProfile, LockTimesOut, Register, Gone
  <2>4. ASSUME NEW l \in Launcher, Seed(l) PROVE run[l].st = "seed" /\ run[l].acct = a
    <3>1. run[l].acct \in Account /\ prof \in Profiles /\ run[l].st = "seed"
      BY <2>4, LauncherFacts DEF RunOK, Seed, IInv, Types
    <3> QED
      BY <2>4, <3>1 DEF Seed, Profiles, Profile
  <2>5. CASE Environment
    <3>1. cfg \in Account /\ prof \in Profiles /\ Types
      BY DEF IInv, Types
    <3>2. ASSUME NEW b \in Account, SessionRefreshes(b) PROVE server' # server /\ prof'[a].cred # None
      <4> DEFINE u == prof[b].cred
      <4>1. u \in Token /\ Issued(minted, u) /\ Rotate(u) /\ prof' = [prof EXCEPT ![b].cred = Next1(u)]
        BY <3>1, <3>2 DEF SessionRefreshes, IInv, ProfilesOK, ProfileOK, Profiles, Profile, MaybeToken
      <4>2. Next1(u) \in Token /\ minted' # minted
        BY <3>1, <4>1, Rotation DEF IInv
      <4>3. a = b
        BY <3>1, <4>1 DEF Profiles
      <4>4. prof'[a].cred = Next1(u)
        BY <3>1, <4>1, <4>3 DEF Profiles, Profile
      <4> QED
        BY <4>2, <4>4, CustodyAssumption DEF server
    <3>3. ASSUME NEW b \in Account, NEW d \in Account, SessionLogin(b, d)
          PROVE  server' # server /\ prof'[a].cred # None
      <4> DEFINE u == <<d, minted[d] + 1>>
      <4>1. SignIn(d) /\ prof' = [prof EXCEPT ![b].cred = u, ![b].ident = d]
        BY <3>3 DEF SessionLogin
      <4>2. u \in Token /\ minted' # minted
        BY <3>1, <4>1, Minting DEF SignIn, Types
      <4> HIDE DEF u
      <4>3. a = b
        BY <3>1, <4>1 DEF Profiles
      <4>4. prof'[a].cred = u
        BY <3>1, <4>1, <4>3 DEF Profiles, Profile
      <4> QED
        BY <4>2, <4>4, CustodyAssumption DEF server
    <3> QED
      BY <2>1, <2>5, <3>1, <3>2, <3>3 DEF Environment, ClaudeToggles, ClaudeRefreshes, Add, Login,
         SwitchTo, RowFallsDue, TokenExpires
  <2> QED
    BY <2>2, <2>3, <2>4, <2>5 DEF Next
<1> QED
  BY <1>1, Inductive, PTL DEF Spec, LiveSessionKeepsCredential
=============================================================================
