--------------------------- MODULE BenchLeaseProofs ---------------------------
(***************************************************************************)
(* Proofs about BenchLease, for any number of sessions, grants and faults  *)
(* and any TTLs: a session that was granted the live lease sends its       *)
(* token, if it makes one tool call at a time; and its keepalive renews    *)
(* that lease before it may be dropped, if the TTLs leave it the time.     *)
(*                                                                         *)
(* LInv relates the live lease to the answers on their way: the holder has *)
(* its token or is about to be told it, a grant that is still to be told   *)
(* is of the live lease if its caller holds that at all, and who is about  *)
(* to be told of a release holds nothing.                                  *)
(*                                                                         *)
(* KInv bounds the age of the live lease by the age of what its holder was *)
(* last told, whether the keepalive rests, renews or was refused: each     *)
(* fault adds one wait and one answer's time, a renewal that crossed the   *)
(* take two answers' time once.                                            *)
(***************************************************************************)
EXTENDS BenchLease, TLAPS

USE LeaseAssumption

\* One tool call at a time, beside the keepalive.
OneCallEach ==
  \A t, u \in Threads \ Keepers : Home[t] = Home[u] => t = u

AnyLease   == [token : Nat, ttl : Nat, age : Nat, holder : Sessions]
AnyHeld    == [token : Nat, ttl : Nat, age : Nat]
AnyRequest == [op : {"take", "renew", "release"}, ttl : Nat, token : Nat,
               stage : {"sent", "granted", "refused"}, age : Nat]

Shapes ==
  /\ lease \in AnyLease \cup {NoLease}
  /\ taken \in Nat
  /\ held \in [Sessions -> AnyHeld]
  /\ env \in [Sessions -> Nat]
  /\ req \in [Threads -> AnyRequest \cup {NoRequest}]
  /\ life \in [Sessions -> {"unborn", "alive", "dead"}]
  /\ faults \in Nat

HeldBy(s) == lease # NoLease /\ lease.holder = s

KeepersRenew == \A k \in Keepers : req[k] # NoRequest => req[k].op = "renew"

UnbornAreStill ==
  \A s \in Sessions : life[s] = "unborn" =>
    ~ HeldBy(s) /\ \A th \in Threads : Home[th] = s => req[th] = NoRequest

\* The answer to a take is on its way, with token n.
Told(th, n) == InFlight(th, "take", "granted") /\ req[th].token = n

GrantIsLive ==
  \A th \in Threads :
    InFlight(th, "take", "granted") /\ HeldBy(Home[th]) => req[th].token = lease.token

ReleasedHoldsNone ==
  \A th \in Threads : InFlight(th, "release", "granted") => ~ HeldBy(Home[th])

HasOrIsTold ==
  \A s \in Sessions :
    faults = 0 /\ life[s] = "alive" /\ HeldBy(s) =>
      held[s].token = lease.token \/ \E th \in Threads : Home[th] = s /\ Told(th, lease.token)

LInv ==
  /\ Shapes
  /\ KeepersRenew
  /\ UnbornAreStill
  /\ GrantIsLive
  /\ ReleasedHoldsNone
  /\ HasOrIsTold

-----------------------------------------------------------------------------

LEMMA InitLInv == Init => LInv
  BY DEF Init, LInv, Shapes, AnyHeld, Default, NoToken, NoTtl, KeepersRenew, UnbornAreStill,
         HeldBy, GrantIsLive, ReleasedHoldsNone, InFlight, HasOrIsTold

\* A token, of the process or of its environment.
LEMMA TokenIsNat == ASSUME Shapes, NEW s \in Sessions PROVE EffectiveToken(s) \in Nat
  BY DEF Shapes, AnyHeld, EffectiveToken

\* The shape of an answer and of a request.
LEMMA AnswerShape ==
  ASSUME Shapes, NEW th \in Threads, req[th] # NoRequest,
         NEW stage \in {"sent", "granted", "refused"}, NEW token \in Nat, NEW ttl \in Nat,
         Answer(th, stage, token, ttl)
  PROVE  /\ req' \in [Threads -> AnyRequest \cup {NoRequest}]
         /\ req'[th] # NoRequest /\ req'[th].op = req[th].op
         /\ req'[th].stage = stage /\ req'[th].token = token
         /\ req'[th].ttl = ttl /\ req'[th].age = req[th].age
         /\ \A u \in Threads \ {th} : req'[u] = req[u]
<1> DEFINE r == [req[th] EXCEPT !.stage = stage, !.token = token, !.ttl = ttl]
<1>1. req[th] \in AnyRequest
  BY DEF Shapes
<1>2. r \in AnyRequest
  BY <1>1 DEF AnyRequest
<1>3. r # NoRequest
  BY <1>2 DEF AnyRequest
<1>4. req' = [req EXCEPT ![th] = r]
  BY DEF Answer, Shapes
<1>5. /\ r.op = req[th].op /\ r.stage = stage /\ r.token = token
      /\ r.ttl = ttl /\ r.age = req[th].age
  BY <1>1 DEF AnyRequest
<1> HIDE DEF r
<1>6. QED
  BY <1>2, <1>3, <1>4, <1>5 DEF Shapes

LEMMA SendShape ==
  ASSUME Shapes, NEW th \in Threads, NEW op \in {"take", "renew", "release"}, NEW ttl \in Nat,
         Send(th, op, ttl)
  PROVE  /\ req' \in [Threads -> AnyRequest \cup {NoRequest}]
         /\ req'[th] # NoRequest /\ req'[th].op = op /\ req'[th].stage = "sent"
         /\ req'[th].token = EffectiveToken(Home[th]) /\ req'[th].ttl = ttl /\ req'[th].age = 0
         /\ \A u \in Threads \ {th} : req'[u] = req[u]
<1> DEFINE r == [op |-> op, ttl |-> ttl, token |-> EffectiveToken(Home[th]), stage |-> "sent", age |-> 0]
<1>1. r \in AnyRequest /\ r # NoRequest
  BY TokenIsNat DEF AnyRequest
<1>2. req' = [req EXCEPT ![th] = r]
  BY DEF Send
<1>3. /\ r.op = op /\ r.stage = "sent" /\ r.token = EffectiveToken(Home[th])
      /\ r.ttl = ttl /\ r.age = 0
  OBVIOUS
<1> HIDE DEF r
<1>4. QED
  BY <1>1, <1>2, <1>3 DEF Shapes

-----------------------------------------------------------------------------
(* The steps *)

\* A request is sent: nothing is granted yet.
LEMMA SendLInv ==
  ASSUME LInv, NEW th \in Threads, NEW op \in {"take", "renew", "release"}, NEW ttl \in Nat,
         Alive(th), req[th] = NoRequest, th \in Keepers => op = "renew",
         Send(th, op, ttl), UNCHANGED <<lease, taken, held, env, life, faults>>
  PROVE  LInv'
<1>1. /\ req' \in [Threads -> AnyRequest \cup {NoRequest}]
      /\ req'[th] # NoRequest /\ req'[th].op = op /\ req'[th].stage = "sent"
      /\ \A u \in Threads \ {th} : req'[u] = req[u]
  BY SendShape DEF LInv
<1>2. Shapes'
  BY <1>1 DEF LInv, Shapes
<1>3. KeepersRenew'
  BY <1>1 DEF LInv, KeepersRenew
<1>4. UnbornAreStill'
  BY <1>1 DEF LInv, UnbornAreStill, HeldBy, Alive
<1>5. GrantIsLive' /\ ReleasedHoldsNone'
  BY <1>1 DEF LInv, GrantIsLive, ReleasedHoldsNone, HeldBy, InFlight
<1>6. HasOrIsTold'
  BY <1>1 DEF LInv, HasOrIsTold, HeldBy, InFlight, Told
<1>7. QED
  BY <1>2, <1>3, <1>4, <1>5, <1>6 DEF LInv

LEMMA CallsLInv ==
  ASSUME LInv, NEW th \in Threads, CallTake(th) \/ CallRenew(th) \/ CallRelease(th) \/ WakeAndRenew(th)
  PROVE  LInv'
<1>1. CASE CallTake(th) \/ CallRenew(th) \/ CallRelease(th)
  <2>1. PICK op \in {"take", "renew", "release"}, ttl \in Nat :
          Idle(th) /\ th \notin Keepers /\ Send(th, op, ttl)
          /\ UNCHANGED <<lease, taken, held, env, life, faults>>
    BY <1>1 DEF CallTake, CallRenew, CallRelease, CallTool, NoTtl
  <2>2. QED
    BY <2>1, SendLInv DEF Idle
<1>2. CASE WakeAndRenew(th)
  <2>1. /\ Alive(th) /\ req[th] = NoRequest /\ Send(th, "renew", 0)
        /\ UNCHANGED <<lease, taken, held, env, life, faults>>
    BY <1>2 DEF WakeAndRenew, Idle, NoTtl
  <2>2. QED
    BY <2>1, SendLInv
<1>3. QED
  BY <1>1, <1>2

\* A refusal, and a request or reply that is lost, grant nothing.
LEMMA RefusedLInv ==
  ASSUME LInv, NEW th \in Threads, req[th] # NoRequest,
         Answer(th, "refused", NoToken, NoTtl),
         UNCHANGED <<lease, taken, held, env, life>>,
         faults' \in Nat, faults' = 0 => faults = 0 /\ req[th].stage = "sent"
  PROVE  LInv'
<1>1. /\ req' \in [Threads -> AnyRequest \cup {NoRequest}]
      /\ req'[th] # NoRequest /\ req'[th].op = req[th].op
      /\ req'[th].stage = "refused"
      /\ \A u \in Threads \ {th} : req'[u] = req[u]
  BY AnswerShape DEF LInv, NoToken, NoTtl
<1>2. Shapes' /\ KeepersRenew'
  BY <1>1 DEF LInv, Shapes, KeepersRenew
<1>3. UnbornAreStill'
  BY <1>1 DEF LInv, UnbornAreStill, HeldBy
<1>4. GrantIsLive' /\ ReleasedHoldsNone'
  BY <1>1 DEF LInv, GrantIsLive, ReleasedHoldsNone, HeldBy, InFlight
<1>5. HasOrIsTold'
  BY <1>1 DEF LInv, HasOrIsTold, HeldBy, InFlight, Told
<1>6. QED
  BY <1>2, <1>3, <1>4, <1>5 DEF LInv

\* Core grants a lease: only its caller's own tool call may be the one that is told.
LEMMA TakeLInv ==
  ASSUME LInv, OneCallEach, NEW th \in Threads, CoreTake(th) PROVE LInv'
<1>1. InFlight(th, "take", "sent") /\ req[th] # NoRequest /\ req[th] \in AnyRequest
  BY DEF CoreTake, InFlight, LInv, Shapes
<1>2. th \notin Keepers
  BY <1>1 DEF LInv, KeepersRenew, InFlight
<1>3. CASE Refuse(th)
  BY <1>1, <1>3, RefusedLInv DEF Refuse, InFlight, LInv, Shapes
<1>4. CASE /\ taken' = taken + 1
           /\ lease' = [token |-> taken + 1, ttl |-> req[th].ttl, age |-> 0, holder |-> Home[th]]
           /\ Answer(th, "granted", taken + 1, req[th].ttl)
           /\ UNCHANGED <<held, env, life, faults>>
  <2>1. /\ req' \in [Threads -> AnyRequest \cup {NoRequest}]
        /\ req'[th] # NoRequest /\ req'[th].op = "take"
        /\ req'[th].stage = "granted" /\ req'[th].token = taken + 1
        /\ \A u \in Threads \ {th} : req'[u] = req[u]
    <3>1. taken + 1 \in Nat /\ req[th].ttl \in Nat
      BY <1>1 DEF LInv, Shapes, AnyRequest
    <3>2. QED
      BY <1>1, <1>4, <3>1, AnswerShape DEF LInv, InFlight
  <2>2. Shapes'
    BY <1>1, <1>4, <2>1 DEF LInv, Shapes, AnyLease, AnyRequest
  <2>3. KeepersRenew'
    BY <1>2, <2>1 DEF LInv, KeepersRenew
  <2>4. lease'.holder = Home[th] /\ lease'.token = taken + 1
    BY <1>4
  <2>5. \A u \in Threads \ {th} : Home[u] = Home[th] => u \in Keepers
    BY <1>2 DEF OneCallEach
  <2>6. UnbornAreStill'
    BY <1>1, <1>4, <2>1, <2>4 DEF LInv, UnbornAreStill, HeldBy
  <2>7. GrantIsLive' /\ ReleasedHoldsNone'
    BY <2>1, <2>3, <2>4, <2>5 DEF GrantIsLive, ReleasedHoldsNone, HeldBy, InFlight, KeepersRenew
  <2>8. HasOrIsTold'
    BY <2>1, <2>4 DEF HasOrIsTold, HeldBy, InFlight, Told
  <2>9. QED
    BY <2>2, <2>3, <2>6, <2>7, <2>8 DEF LInv
<1>5. QED
  BY <1>3, <1>4 DEF CoreTake

\* A renewal leaves the lease its token and its holder.
LEMMA RenewLInv == ASSUME LInv, NEW th \in Threads, CoreRenew(th) PROVE LInv'
<1>1. InFlight(th, "renew", "sent") /\ req[th] # NoRequest /\ req[th] \in AnyRequest
  BY DEF CoreRenew, InFlight, LInv, Shapes
<1>2. CASE ~ ShowsLiveToken(th)
  BY <1>1, <1>2, RefusedLInv DEF CoreRenew, Refuse, InFlight, LInv, Shapes
<1>3. CASE ShowsLiveToken(th)
  <2> DEFINE ttl == IF req[th].ttl = NoTtl THEN lease.ttl ELSE req[th].ttl
  <2>1. lease \in AnyLease /\ lease # NoLease /\ ttl \in Nat /\ req[th].token \in Nat
    BY <1>1, <1>3 DEF ShowsLiveToken, LInv, Shapes, AnyLease, AnyRequest
  <2>2. /\ lease' = [lease EXCEPT !.ttl = ttl, !.age = 0]
        /\ Answer(th, "granted", req[th].token, ttl)
        /\ UNCHANGED <<taken, held, env, life, faults>>
    BY <1>3 DEF CoreRenew
  <2> HIDE DEF ttl
  <2>3. /\ req' \in [Threads -> AnyRequest \cup {NoRequest}]
        /\ req'[th] # NoRequest /\ req'[th].op = "renew"
        /\ \A u \in Threads \ {th} : req'[u] = req[u]
    BY <1>1, <2>1, <2>2, AnswerShape DEF LInv, InFlight
  <2>4. lease' \in AnyLease /\ lease'.token = lease.token /\ lease'.holder = lease.holder
    BY <2>1, <2>2 DEF AnyLease
  <2>5. Shapes' /\ KeepersRenew'
    BY <2>2, <2>3, <2>4 DEF LInv, Shapes, KeepersRenew
  <2>6. UnbornAreStill'
    BY <1>1, <2>1, <2>2, <2>3, <2>4 DEF LInv, UnbornAreStill, HeldBy
  <2>7. GrantIsLive' /\ ReleasedHoldsNone'
    BY <1>1, <2>1, <2>3, <2>4 DEF LInv, GrantIsLive, ReleasedHoldsNone, HeldBy, InFlight
  <2>8. HasOrIsTold'
    BY <1>1, <2>1, <2>2, <2>3, <2>4 DEF LInv, HasOrIsTold, HeldBy, InFlight, Told
  <2>9. QED
    BY <2>5, <2>6, <2>7, <2>8 DEF LInv
<1>4. QED
  BY <1>2, <1>3

\* The lease ends, by a release, its age or a restart.
LEMMA LeaseEndsLInv ==
  ASSUME LInv, lease' = NoLease, Shapes', KeepersRenew',
         UNCHANGED life,
         \A th \in Threads : req[th] = NoRequest => req'[th] = NoRequest
  PROVE  LInv'
  BY DEF LInv, UnbornAreStill, GrantIsLive, ReleasedHoldsNone, HasOrIsTold, HeldBy

LEMMA ReleaseLInv == ASSUME LInv, NEW th \in Threads, CoreRelease(th) PROVE LInv'
<1>1. InFlight(th, "release", "sent") /\ req[th] # NoRequest /\ req[th] \in AnyRequest
  BY DEF CoreRelease, InFlight, LInv, Shapes
<1>2. CASE ~ ShowsLiveToken(th)
  BY <1>1, <1>2, RefusedLInv DEF CoreRelease, Refuse, InFlight, LInv, Shapes
<1>3. CASE ShowsLiveToken(th)
  <2>1. /\ lease' = NoLease
        /\ Answer(th, "granted", req[th].token, 0)
        /\ UNCHANGED <<taken, held, env, life, faults>>
    BY <1>3 DEF CoreRelease, NoTtl
  <2>2. req[th].token \in Nat
    BY <1>1 DEF AnyRequest
  <2>3. /\ req' \in [Threads -> AnyRequest \cup {NoRequest}]
        /\ req'[th].op = "release"
        /\ \A u \in Threads \ {th} : req'[u] = req[u]
    BY <1>1, <2>1, <2>2, AnswerShape DEF LInv, InFlight
  <2>4. th \notin Keepers
    BY <1>1 DEF LInv, KeepersRenew, InFlight
  <2>5. Shapes' /\ KeepersRenew'
    BY <2>1, <2>3, <2>4 DEF LInv, Shapes, KeepersRenew
  <2>6. QED
    BY <1>1, <2>1, <2>3, <2>5, LeaseEndsLInv
<1>4. QED
  BY <1>2, <1>3

LEMMA EndsLInv == ASSUME LInv, Expire \/ CoreRestart PROVE LInv'
<1>1. lease' = NoLease /\ UNCHANGED <<taken, held, env, req, life>> /\ faults' \in Nat
  BY DEF Expire, CoreRestart, Fault, LInv, Shapes
<1>2. Shapes' /\ KeepersRenew'
  BY <1>1 DEF LInv, Shapes, KeepersRenew
<1>3. QED
  BY <1>1, <1>2, LeaseEndsLInv

\* A process starts with any token: it holds no lease, and was granted none.
LEMMA StartLInv == ASSUME LInv, NEW s \in Sessions, Start(s) PROVE LInv'
<1>1. /\ UNCHANGED <<lease, taken, req, faults>> /\ life[s] = "unborn"
      /\ life' = [life EXCEPT ![s] = "alive"]
  BY DEF Start
<1>2. PICK token \in 0..taken :
        \/ env' = [env EXCEPT ![s] = token] /\ UNCHANGED held
        \/ held' = [held EXCEPT ![s].token = token] /\ UNCHANGED env
  BY DEF Start
<1>3. held' \in [Sessions -> AnyHeld] /\ env' \in [Sessions -> Nat]
      /\ \A r \in Sessions \ {s} : held'[r] = held[r]
  BY <1>2 DEF LInv, Shapes, AnyHeld
<1>4. Shapes' /\ KeepersRenew'
  BY <1>1, <1>3 DEF LInv, Shapes, KeepersRenew
<1>5. UnbornAreStill'
  BY <1>1 DEF LInv, UnbornAreStill, HeldBy, Shapes
<1>6. GrantIsLive' /\ ReleasedHoldsNone'
  BY <1>1 DEF LInv, GrantIsLive, ReleasedHoldsNone, HeldBy, InFlight
<1>7. HasOrIsTold'
  BY <1>1, <1>3 DEF LInv, HasOrIsTold, UnbornAreStill, HeldBy, InFlight, Told, Shapes
<1>8. QED
  BY <1>4, <1>5, <1>6, <1>7 DEF LInv

\* Whoever is gone keeps no promise; the others are left alone.
LEMMA GoneLInv ==
  ASSUME LInv, NEW s \in Sessions, life[s] = "alive", Vanish(s),
         UNCHANGED <<lease, taken, faults>>,
         req' \in [Threads -> AnyRequest \cup {NoRequest}],
         \A th \in Threads : req'[th] \in {req[th], NoRequest},
         \A th \in Threads : Home[th] # s => req'[th] = req[th]
  PROVE  LInv'
<1>1. /\ life' = [life EXCEPT ![s] = "dead"]
      /\ held' \in [Sessions -> AnyHeld] /\ env' \in [Sessions -> Nat]
      /\ \A r \in Sessions \ {s} : held'[r] = held[r]
  BY DEF Vanish, LInv, Shapes, AnyHeld, Default, NoToken, NoTtl
<1>2. Shapes' /\ KeepersRenew'
  BY <1>1 DEF LInv, Shapes, KeepersRenew
<1>3. UnbornAreStill'
  BY <1>1 DEF LInv, UnbornAreStill, HeldBy, Shapes
<1>4. GrantIsLive' /\ ReleasedHoldsNone'
  BY DEF LInv, GrantIsLive, ReleasedHoldsNone, HeldBy, InFlight
<1>5. HasOrIsTold'
  BY <1>1 DEF LInv, HasOrIsTold, HeldBy, InFlight, Told, Shapes
<1>6. QED
  BY <1>2, <1>3, <1>4, <1>5 DEF LInv

LEMMA KillLInv == ASSUME LInv, NEW s \in Sessions, Kill(s) PROVE LInv'
<1>1. PICK lost \in SUBSET {th \in Threads : Home[th] = s} :
        req' = [th \in Threads |-> IF th \in lost THEN NoRequest ELSE req[th]]
  BY DEF Kill
<1>2. QED
  BY <1>1, GoneLInv DEF Kill, LInv, Shapes

\* An answer is applied: the token it leaves is the holder's.
LEMMA ReceiveLInv ==
  ASSUME LInv, NEW th \in Threads, NEW op, NEW stage, NEW newHeld \in AnyHeld,
         Receive(th, op, stage, newHeld),
         HeldBy(Home[th]) =>
           IF op = "take" /\ stage = "granted" THEN newHeld.token = req[th].token
           ELSE (op = "release" /\ stage = "granted") \/ newHeld.token = held[Home[th]].token
  PROVE  LInv'
<1> DEFINE s == Home[th]
<1>1. /\ s \in Sessions /\ life[s] = "alive" /\ InFlight(th, op, stage)
      /\ req' = [req EXCEPT ![th] = NoRequest] /\ UNCHANGED <<lease, taken, faults>>
  BY DEF Receive, Alive
<1>2. /\ req' \in [Threads -> AnyRequest \cup {NoRequest}]
      /\ req'[th] = NoRequest /\ \A u \in Threads \ {th} : req'[u] = req[u]
  BY <1>1 DEF LInv, Shapes
<1>3. CASE ~ Serves(s)
  <2>1. Vanish(s)
    BY <1>3 DEF Receive
  <2>2. QED
    BY <1>1, <1>2, <2>1, GoneLInv
<1>4. CASE Serves(s)
  <2>1. held' = [held EXCEPT ![s] = newHeld] /\ UNCHANGED <<env, life>>
    BY <1>4 DEF Receive
  <2>2. held' \in [Sessions -> AnyHeld] /\ held'[s] = newHeld
        /\ \A r \in Sessions \ {s} : held'[r] = held[r]
    BY <1>1, <2>1 DEF LInv, Shapes
  <2>3. Shapes' /\ KeepersRenew'
    BY <1>1, <1>2, <2>1, <2>2 DEF LInv, Shapes, KeepersRenew
  <2>4. UnbornAreStill'
    BY <1>1, <1>2, <2>1 DEF LInv, UnbornAreStill, HeldBy
  <2>5. GrantIsLive' /\ ReleasedHoldsNone'
    BY <1>1, <1>2 DEF LInv, GrantIsLive, ReleasedHoldsNone, HeldBy, InFlight
  <2>6. HasOrIsTold'
    <3> SUFFICES ASSUME NEW r \in Sessions, faults' = 0, life'[r] = "alive", HeldBy(r)'
                 PROVE  \/ held'[r].token = lease'.token
                        \/ \E u \in Threads : Home[u] = r /\ Told(u, lease.token)'
      BY <1>1 DEF HasOrIsTold, Told, InFlight
    <3>1. HeldBy(r) /\ faults = 0 /\ life[r] = "alive"
      BY <1>1, <2>1 DEF HeldBy
    <3>2. held[r].token = lease.token \/ \E u \in Threads : Home[u] = r /\ Told(u, lease.token)
      BY <3>1 DEF LInv, HasOrIsTold
    <3>3. CASE r # s
      BY <1>1, <1>2, <2>2, <3>2, <3>3 DEF Told, InFlight
    <3>4. CASE r = s
      <4>1. ~ (op = "release" /\ stage = "granted")
        BY <1>1, <3>1, <3>4 DEF LInv, ReleasedHoldsNone
      <4>2. CASE op = "take" /\ stage = "granted"
        BY <1>1, <2>2, <3>1, <3>4, <4>2 DEF LInv, GrantIsLive
      <4>3. CASE ~ (op = "take" /\ stage = "granted")
        <5>1. newHeld.token = held[s].token /\ \A n : ~ Told(th, n)
          BY <1>1, <3>1, <3>4, <4>1, <4>3 DEF Told, InFlight
        <5>2. QED
          BY <1>1, <1>2, <2>2, <3>2, <3>4, <5>1 DEF Told, InFlight
      <4>4. QED
        BY <4>2, <4>3
    <3>5. QED
      BY <3>3, <3>4
  <2>7. QED
    BY <2>3, <2>4, <2>5, <2>6 DEF LInv
<1>5. QED
  BY <1>3, <1>4

LEMMA ReplyLInv == ASSUME LInv, NEW th \in Threads, ReplyStep(th) PROVE LInv'
<1>1. held[Home[th]] \in AnyHeld /\ req[th] \in AnyRequest \cup {NoRequest}
  BY DEF LInv, Shapes
<1>2. CASE TakeAnswered(th)
  <2> DEFINE new == [token |-> req[th].token, ttl |-> req[th].ttl, age |-> 0]
  <2>1. Receive(th, "take", "granted", new)
    BY <1>2 DEF TakeAnswered
  <2>2. new \in AnyHeld /\ new.token = req[th].token
    BY <1>1, <2>1 DEF Receive, InFlight, AnyHeld, AnyRequest
  <2> HIDE DEF new
  <2>3. QED
    BY <2>1, <2>2, ReceiveLInv
<1>3. CASE RenewAnswered(th)
  <2> DEFINE new == [held[Home[th]] EXCEPT !.ttl = req[th].ttl, !.age = 0]
  <2>1. Receive(th, "renew", "granted", new)
    BY <1>3 DEF RenewAnswered
  <2>2. new \in AnyHeld /\ new.token = held[Home[th]].token
    BY <1>1, <2>1 DEF Receive, InFlight, AnyHeld, AnyRequest
  <2> HIDE DEF new
  <2>3. QED
    BY <2>1, <2>2, ReceiveLInv
<1>4. CASE ReleaseAnswered(th)
  <2>1. Default \in AnyHeld
    BY DEF Default, AnyHeld, NoToken, NoTtl
  <2>2. QED
    BY <1>4, <2>1, ReceiveLInv DEF ReleaseAnswered
<1>5. CASE ToolRefused(th)
  BY <1>1, <1>5, ReceiveLInv DEF ToolRefused
<1>6. CASE KeepaliveRefused(th)
  <2> DEFINE mine == held[Home[th]]
             ttl  == IF mine.ttl = NoTtl THEN DefaultTtl ELSE mine.ttl
             new  == [mine EXCEPT !.ttl = ttl, !.age = 0]
  <2>1. Receive(th, "renew", "refused", new)
    BY <1>6 DEF KeepaliveRefused
  <2>2. new \in AnyHeld /\ new.token = mine.token
    BY <1>1 DEF AnyHeld
  <2> HIDE DEF new, ttl
  <2>3. QED
    BY <2>1, <2>2, ReceiveLInv
<1>7. QED
  BY <1>2, <1>3, <1>4, <1>5, <1>6 DEF ReplyStep

LEMMA LoseLInv == ASSUME LInv, NEW th \in Threads, Lose(th) PROVE LInv'
<1>1. faults' \in Nat /\ faults' # 0
  BY DEF Lose, Fault, LInv, Shapes
<1>2. QED
  BY <1>1, RefusedLInv DEF Lose

\* Time changes ages alone.
LEMMA TickLInv == ASSUME LInv, Tick PROVE LInv'
<1>1. /\ lease' = IF lease = NoLease THEN NoLease ELSE [lease EXCEPT !.age = @ + 1]
      /\ UNCHANGED <<taken, env, life, faults>>
  BY DEF Tick
<1>2. /\ lease' \in AnyLease \cup {NoLease}
      /\ \A s \in Sessions : HeldBy(s)' => HeldBy(s) /\ lease'.token = lease.token
  BY <1>1 DEF LInv, Shapes, AnyLease, HeldBy
<1>3. ASSUME NEW age \in Nat, NEW limit PROVE Older(age, limit) \in Nat
  BY DEF Older
<1>4. /\ held' \in [Sessions -> AnyHeld]
      /\ \A s \in Sessions : held'[s].token = held[s].token
  <2>1. ASSUME NEW s \in Sessions
        PROVE  held'[s] \in AnyHeld /\ held'[s].token = held[s].token
    <3>1. held[s] \in AnyHeld
      BY DEF LInv, Shapes
    <3>2. held'[s] = IF held[s].ttl = NoTtl THEN held[s]
                     ELSE [held[s] EXCEPT !.age = Older(@, MaxWait)]
      BY DEF Tick
    <3>3. QED
      BY <1>3, <3>1, <3>2 DEF AnyHeld
  <2>2. QED
    BY <2>1 DEF Tick
<1>5. /\ req' \in [Threads -> AnyRequest \cup {NoRequest}]
      /\ \A th \in Threads :
           IF req[th] = NoRequest THEN req'[th] = NoRequest
           ELSE /\ req'[th] # NoRequest /\ req'[th].op = req[th].op
                /\ req'[th].stage = req[th].stage /\ req'[th].token = req[th].token
  <2>1. ASSUME NEW th \in Threads, req[th] # NoRequest
        PROVE  /\ req'[th] \in AnyRequest /\ req'[th] # NoRequest /\ req'[th].op = req[th].op
               /\ req'[th].stage = req[th].stage /\ req'[th].token = req[th].token
    <3>1. req[th] \in AnyRequest
      BY <2>1 DEF LInv, Shapes
    <3>2. req'[th] = [req[th] EXCEPT !.age = Older(@, Latency)]
      BY <2>1 DEF Tick
    <3>3. req'[th] \in AnyRequest
      BY <1>3, <3>1, <3>2 DEF AnyRequest
    <3>4. QED
      BY <3>1, <3>2, <3>3 DEF AnyRequest
  <2>2. ASSUME NEW th \in Threads, req[th] = NoRequest PROVE req'[th] = NoRequest
    BY <2>2 DEF Tick
  <2>3. req' = [th \in Threads |-> req'[th]]
    BY DEF Tick
  <2>4. QED
    BY <2>1, <2>2, <2>3
<1>6. Shapes' /\ KeepersRenew'
  BY <1>1, <1>2, <1>4, <1>5 DEF LInv, Shapes, KeepersRenew
<1>7. UnbornAreStill'
  BY <1>1, <1>2, <1>5 DEF LInv, UnbornAreStill
<1>8. GrantIsLive' /\ ReleasedHoldsNone'
  BY <1>2, <1>5 DEF LInv, GrantIsLive, ReleasedHoldsNone, InFlight
<1>9. HasOrIsTold'
  BY <1>1, <1>2, <1>4, <1>5 DEF LInv, HasOrIsTold, InFlight, Told
<1>10. QED
  BY <1>6, <1>7, <1>8, <1>9 DEF LInv

\* Every step preserves the invariant.
LEMMA NextLInv == ASSUME OneCallEach PROVE LInv /\ [Next]_vars => LInv'
<1> SUFFICES ASSUME LInv, [Next]_vars PROVE LInv'
  OBVIOUS
<1>1. CASE \E s \in Sessions : Start(s) \/ Kill(s)
  BY <1>1, StartLInv, KillLInv
<1>2. CASE \E th \in Threads : CallTake(th) \/ CallRenew(th) \/ CallRelease(th) \/ WakeAndRenew(th)
  BY <1>2, CallsLInv
<1>3. CASE \E th \in Threads : CoreStep(th)
  BY <1>3, TakeLInv, RenewLInv, ReleaseLInv DEF CoreStep
<1>4. CASE \E th \in Threads : ReplyStep(th) \/ Lose(th)
  BY <1>4, ReplyLInv, LoseLInv
<1>5. CASE Expire \/ CoreRestart \/ Tick
  BY <1>5, EndsLInv, TickLInv
<1>6. CASE UNCHANGED vars
  BY <1>6 DEF vars, LInv, Shapes, KeepersRenew, UnbornAreStill, GrantIsLive, ReleasedHoldsNone,
              HasOrIsTold, HeldBy, InFlight, Told
<1>7. QED
  BY <1>1, <1>2, <1>3, <1>4, <1>5, <1>6 DEF Next

\* "every later request of this process carries it": for any sessions, TTLs and grants, a
\* live session at rest that Core granted the live lease to sends that lease's token,
\* if nothing was lost and its tool calls come one at a time.
THEOREM HolderKeepsItsToken ==
  ASSUME OneCallEach PROVE Spec => []HolderSendsToken
<1>1. LInv => HolderSendsToken
  BY DEF LInv, HasOrIsTold, HolderSendsToken, Waiting, HeldBy, Told, InFlight
<1>2. LInv /\ [Next]_vars => LInv'
  BY NextLInv
<1>3. Spec => []LInv
  BY InitLInv, <1>2, PTL DEF Spec
<1>4. QED
  BY <1>1, <1>3, PTL

-----------------------------------------------------------------------------
(* The keepalive *)

\* The requests of a session come from a longest TTL down, and the shortest outlasts a
\* keepalive whose every fault costs it a renewal, after one that crossed a take.
KeepsMargin ==
  /\ \E n \in AllTtls : \A m \in AllTtls : m <= n
  /\ \A ttl \in Ttls : (MaxFaults + 1) * (MaxWait + Latency) + 2 * Latency < ttl

\* How much older than the last answer a lease may be, after n faults.
Slack(n) == n * (MaxWait + Latency) + 2 * Latency

\* No token is from a lease to come.
TokensAreOld ==
  /\ lease # NoLease => lease.token \in 1..taken
  /\ \A s \in Sessions : held[s].token <= taken
  /\ \A th \in Threads : InFlight(th, "take", "granted") => req[th].token <= taken

\* What is granted has a TTL that was asked for.
TtlsAreAsked ==
  /\ lease # NoLease => lease.ttl \in Ttls
  /\ \A s \in Sessions : held[s].ttl \in AllTtls
  /\ \A th \in Threads : req[th] # NoRequest =>
       /\ req[th].ttl \in AllTtls
       /\ req[th].op = "take" /\ req[th].stage # "refused" => req[th].ttl \in Ttls
       /\ req[th].op = "renew" /\ req[th].stage = "granted" => req[th].ttl \in Ttls
       /\ req[th].op = "renew" /\ req[th].stage = "sent" => req[th].ttl \in Ttls \cup {NoTtl}

RequestsAreYoung ==
  \A th \in Threads : Alive(th) /\ req[th] # NoRequest => req[th].age <= Latency

\* A lease that its holder is about to be told of, or that it is about to be told the
\* renewal of, is no older than the request.
GrantsAreYoung ==
  /\ \A th \in Threads :
       lease # NoLease /\ Alive(th) /\ Told(th, lease.token) => lease.age <= req[th].age
  /\ \A th \in Threads :
       Alive(th) /\ HeldBy(Home[th]) /\ InFlight(th, "renew", "granted") => lease.age <= req[th].age

\* It holds the live lease and knows so.
Holds(s) == life[s] = "alive" /\ HeldBy(s) /\ held[s].token = lease.token

\* Between two renewals, the lease is not much older than the last answer.
RestIsShort(k) ==
  LET mine == held[Home[k]] IN
  req[k] = NoRequest => mine.age <= MaxWait /\ lease.age <= mine.age + Slack(faults)

\* The lease that is being renewed; a renewal that is not the lease's own crossed the
\* take that made it stale.
RenewalIsTimely(k) ==
  InFlight(k, "renew", "sent") =>
    \/ req[k].token = lease.token /\ lease.age <= MaxWait + Slack(faults) + req[k].age
    \/ lease.age <= Latency + req[k].age

RetryIsTimely(k) ==
  InFlight(k, "renew", "refused") => lease.age + Latency <= Slack(faults) + req[k].age

Timely(k) ==
  held[Home[k]].ttl # NoTtl /\ RestIsShort(k) /\ RenewalIsTimely(k) /\ RetryIsTimely(k)

LeaseIsYoung == \A k \in Keepers : Holds(Home[k]) => Timely(k)

KInv ==
  /\ Shapes /\ KeepersRenew /\ UnbornAreStill
  /\ faults <= MaxFaults
  /\ TokensAreOld /\ TtlsAreAsked /\ RequestsAreYoung /\ GrantsAreYoung
  /\ LeaseIsYoung

-----------------------------------------------------------------------------
\* What the margin comes to.
LEMMA Margins ==
  ASSUME KeepsMargin
  PROVE  /\ MaxWait \in Nat
         /\ \A ttl \in AllTtls : ttl \in Nat /\ Third(ttl) \in Nat /\ Third(ttl) + 1 <= MaxWait
         /\ \A n \in Nat : Slack(n) \in Nat /\ 2 * Latency <= Slack(n)
         /\ \A n \in Nat : Slack(n + 1) = Slack(n) + MaxWait + Latency
         /\ \A n \in 0..MaxFaults : \A ttl \in Ttls : Slack(n) + MaxWait + Latency < ttl
<1>1. AllTtls \subseteq Nat
  BY DEF AllTtls, NoTtl
<1>2. MaxTtl \in AllTtls /\ \A ttl \in AllTtls : ttl <= MaxTtl
  BY DEF KeepsMargin, MaxTtl
<1>3. \A ttl \in Nat : Third(ttl) \in Nat
  BY DEF Third, AtLeastOne
<1>4. \A ttl, max \in Nat : ttl <= max => Third(ttl) <= Third(max)
  BY DEF Third, AtLeastOne
<1>5. MaxWait \in Nat /\ \A ttl \in AllTtls : Third(ttl) + 1 <= MaxWait
  BY <1>1, <1>2, <1>3, <1>4 DEF MaxWait
<1> DEFINE x == MaxWait + Latency
<1>6. x \in Nat /\ 2 * Latency \in Nat
  BY <1>5
<1>7. \A n \in Nat : n * x \in Nat /\ (n + 1) * x = n * x + x
  BY <1>6
<1>8. \A n \in 0..MaxFaults : (n + 1) * x <= (MaxFaults + 1) * x
  <2>1. SUFFICES ASSUME NEW n \in 0..MaxFaults PROVE (n + 1) * x <= (MaxFaults + 1) * x
    OBVIOUS
  <2>2. (MaxFaults + 1) * x = (n + 1) * x + (MaxFaults - n) * x /\ (MaxFaults - n) * x \in Nat
    BY <1>6
  <2>3. (n + 1) * x \in Nat
    BY <1>6
  <2>4. QED
    BY <2>2, <2>3
<1>9. \A ttl \in Ttls : ttl \in Nat /\ (MaxFaults + 1) * x + 2 * Latency < ttl
  BY DEF KeepsMargin
<1>10. \A n \in Nat : Slack(n) = n * x + 2 * Latency
  BY DEF Slack
<1>11. (MaxFaults + 1) * x \in Nat
  BY <1>6
<1> HIDE DEF x
<1>12. \A n \in Nat : /\ Slack(n) \in Nat /\ 2 * Latency <= Slack(n)
                      /\ Slack(n + 1) = Slack(n) + x
  BY <1>6, <1>7, <1>10
<1>13. \A n \in 0..MaxFaults : \A ttl \in Ttls : Slack(n) + x < ttl
  BY <1>6, <1>7, <1>8, <1>9, <1>10, <1>11
<1>14. QED
  BY <1>1, <1>3, <1>5, <1>12, <1>13 DEF x

LEMMA Numbers ==
  ASSUME Shapes
  PROVE  /\ lease # NoLease => /\ lease.token \in Nat /\ lease.age \in Nat /\ lease.ttl \in Nat
                               /\ lease.holder \in Sessions
         /\ \A s \in Sessions : held[s].token \in Nat /\ held[s].ttl \in Nat /\ held[s].age \in Nat
         /\ \A th \in Threads : req[th] # NoRequest =>
              req[th].token \in Nat /\ req[th].ttl \in Nat /\ req[th].age \in Nat
         /\ \A th \in Threads : Home[th] \in Sessions
         /\ taken \in Nat /\ faults \in Nat
  BY DEF Shapes, AnyLease, AnyHeld, AnyRequest

LEMMA InitKInv == Init => KInv
<1> SUFFICES ASSUME Init PROVE KInv
  OBVIOUS
<1>1. Shapes /\ KeepersRenew /\ UnbornAreStill
  BY InitLInv DEF LInv
<1>2. /\ lease = NoLease /\ taken = 0 /\ faults = 0
      /\ \A s \in Sessions : held[s].token = 0 /\ held[s].ttl = NoTtl
      /\ \A th \in Threads : req[th] = NoRequest
  BY DEF Init, Default, NoToken
<1>3. TokensAreOld /\ TtlsAreAsked /\ RequestsAreYoung /\ GrantsAreYoung /\ LeaseIsYoung
  BY <1>2 DEF TokensAreOld, TtlsAreAsked, RequestsAreYoung, GrantsAreYoung, LeaseIsYoung, Holds,
     HeldBy, InFlight, AllTtls
<1>4. QED
  BY <1>1, <1>2, <1>3 DEF KInv

\* A request is sent. A renewal carries the live token, if its session holds it.
LEMMA SendKInv ==
  ASSUME KInv, KeepsMargin, NEW th \in Threads, NEW op \in {"take", "renew", "release"},
         NEW ttl \in Ttls \cup {NoTtl}, op = "take" => ttl \in Ttls,
         Alive(th), req[th] = NoRequest, th \in Keepers => op = "renew",
         Send(th, op, ttl), UNCHANGED <<lease, taken, held, env, life, faults>>
  PROVE  KInv'
<1>1. /\ req' \in [Threads -> AnyRequest \cup {NoRequest}]
      /\ req'[th] # NoRequest /\ req'[th].op = op /\ req'[th].stage = "sent"
      /\ req'[th].token = EffectiveToken(Home[th]) /\ req'[th].ttl = ttl /\ req'[th].age = 0
      /\ \A u \in Threads \ {th} : req'[u] = req[u]
  <2>1. ttl \in Nat
    <3>1. ttl \in Ttls => ttl \in Nat
      BY LeaseAssumption
    <3>2. QED
      BY <3>1 DEF NoTtl
  <2>2. QED
    BY <2>1, SendShape DEF KInv
<1>2. Shapes'
  BY <1>1 DEF KInv, Shapes
<1>3. KeepersRenew'
  BY <1>1 DEF KInv, KeepersRenew
<1>4. UnbornAreStill'
  BY <1>1 DEF KInv, UnbornAreStill, HeldBy, Alive
<1>5. TokensAreOld'
  BY <1>1 DEF KInv, TokensAreOld, InFlight
<1>6. TtlsAreAsked'
  BY <1>1 DEF KInv, TtlsAreAsked, AllTtls
<1>7. RequestsAreYoung' /\ GrantsAreYoung'
  BY <1>1 DEF KInv, RequestsAreYoung, GrantsAreYoung, InFlight, Told, HeldBy, Alive
<1>8. ASSUME NEW k \in Keepers, Holds(Home[k])' PROVE Timely(k)'
  <2>1. Holds(Home[k]) /\ Timely(k)
    BY <1>8 DEF Holds, HeldBy, KInv, LeaseIsYoung
  <2>2. CASE k # th
    BY <1>1, <2>1, <2>2 DEF Timely, RestIsShort, RenewalIsTimely, RetryIsTimely, InFlight
  <2>3. CASE k = th
    <3>1. req'[k].token = lease.token
      BY <1>1, <2>1, <2>3 DEF Holds, HeldBy, EffectiveToken, NoToken, KInv, TokensAreOld
    <3>2. lease.age <= MaxWait + Slack(faults)
      <4>1. held[Home[k]].age <= MaxWait /\ lease.age <= held[Home[k]].age + Slack(faults)
        BY <2>1, <2>3 DEF Timely, RestIsShort
      <4>2. /\ held[Home[k]].age \in Nat /\ lease.age \in Nat /\ MaxWait \in Nat
            /\ Slack(faults) \in Nat
        BY <2>1, Numbers, Margins DEF KInv, Holds, HeldBy
      <4>3. QED
        BY <4>1, <4>2
    <3>3. /\ lease.age \in Nat /\ MaxWait \in Nat /\ Slack(faults) \in Nat
      BY <2>1, Numbers, Margins DEF KInv, Holds, HeldBy
    <3>4. QED
      BY <1>1, <2>1, <2>3, <3>1, <3>2, <3>3
         DEF Timely, RestIsShort, RenewalIsTimely, RetryIsTimely, InFlight
  <2>4. QED
    BY <2>2, <2>3
<1>9. QED
  BY <1>2, <1>3, <1>4, <1>5, <1>6, <1>7, <1>8 DEF KInv, LeaseIsYoung

LEMMA CallsKInv ==
  ASSUME KInv, KeepsMargin, NEW th \in Threads,
         CallTake(th) \/ CallRenew(th) \/ CallRelease(th) \/ WakeAndRenew(th)
  PROVE  KInv'
<1>1. CASE CallTake(th) \/ CallRenew(th) \/ CallRelease(th)
  <2>1. PICK op \in {"take", "renew", "release"}, ttl \in Ttls \cup {NoTtl} :
          /\ op = "take" => ttl \in Ttls
          /\ Idle(th) /\ th \notin Keepers /\ Send(th, op, ttl)
          /\ UNCHANGED <<lease, taken, held, env, life, faults>>
    BY <1>1 DEF CallTake, CallRenew, CallRelease, CallTool
  <2>2. QED
    BY <2>1, SendKInv DEF Idle
<1>2. CASE WakeAndRenew(th)
  <2>1. /\ Alive(th) /\ req[th] = NoRequest /\ Send(th, "renew", NoTtl)
        /\ UNCHANGED <<lease, taken, held, env, life, faults>>
    BY <1>2 DEF WakeAndRenew, Idle
  <2>2. QED
    BY <2>1, SendKInv
<1>3. QED
  BY <1>1, <1>2

\* A refusal of another token than the live one, and a request or reply that is lost.
LEMMA RefusedKInv ==
  ASSUME KInv, KeepsMargin, NEW th \in Threads, req[th] # NoRequest,
         Answer(th, "refused", NoToken, NoTtl),
         UNCHANGED <<lease, taken, held, env, life>>,
         \/ /\ faults' = faults /\ req[th].stage = "sent"
            /\ th \in Keepers /\ lease # NoLease => req[th].token # lease.token
         \/ faults' = faults + 1 /\ faults' <= MaxFaults /\ req[th].stage # "refused"
  PROVE  KInv'
<1>1. /\ req' \in [Threads -> AnyRequest \cup {NoRequest}]
      /\ req'[th] # NoRequest /\ req'[th].op = req[th].op
      /\ req'[th].stage = "refused" /\ req'[th].ttl = NoTtl /\ req'[th].age = req[th].age
      /\ \A u \in Threads \ {th} : req'[u] = req[u]
  BY AnswerShape DEF KInv, NoToken, NoTtl
<1>2. /\ faults \in Nat /\ faults' \in Nat /\ faults' <= MaxFaults
      /\ Slack(faults) \in Nat /\ Slack(faults') \in Nat /\ Slack(faults) <= Slack(faults')
      /\ 2 * Latency <= Slack(faults')
      /\ faults' # faults => Slack(faults') = Slack(faults) + MaxWait + Latency
      /\ MaxWait \in Nat
  BY Margins, Numbers DEF KInv
<1>3. Shapes' /\ KeepersRenew'
  BY <1>1, <1>2 DEF KInv, Shapes, KeepersRenew
<1>4. UnbornAreStill'
  BY <1>1 DEF KInv, UnbornAreStill, HeldBy
<1>5. TokensAreOld'
  BY <1>1 DEF KInv, TokensAreOld, InFlight
<1>6. TtlsAreAsked'
  BY <1>1 DEF KInv, TtlsAreAsked, AllTtls
<1>7. RequestsAreYoung' /\ GrantsAreYoung'
  BY <1>1 DEF KInv, RequestsAreYoung, GrantsAreYoung, InFlight, Told, HeldBy, Alive
<1>8. ASSUME NEW k \in Keepers, Holds(Home[k])' PROVE Timely(k)'
  <2>1. Holds(Home[k]) /\ Timely(k)
    BY <1>8 DEF Holds, HeldBy, KInv, LeaseIsYoung
  <2>2. /\ lease # NoLease /\ lease.age \in Nat /\ held[Home[k]].age \in Nat
        /\ \A u \in Threads : req[u] # NoRequest => req[u].age \in Nat
    BY <2>1, Numbers DEF KInv, Holds, HeldBy
  <2>3. CASE k # th
    BY <1>1, <1>2, <2>1, <2>2, <2>3 DEF Timely, RestIsShort, RenewalIsTimely, RetryIsTimely, InFlight
  <2>4. CASE k = th
    <3>1. req[k].op = "renew" /\ req[k].stage \in {"sent", "granted", "refused"}
      BY <2>4 DEF KInv, KeepersRenew, Shapes, AnyRequest
    <3>2. CASE req[k].stage = "sent"
      <4>1. \/ req[k].token = lease.token /\ lease.age <= MaxWait + Slack(faults) + req[k].age
            \/ lease.age <= Latency + req[k].age
        BY <2>1, <2>4, <3>1, <3>2 DEF Timely, RenewalIsTimely, InFlight
      <4>2. lease.age + Latency <= Slack(faults') + req[k].age
        BY <1>2, <2>2, <2>4, <4>1
      <4>3. QED
        BY <1>1, <2>1, <2>4, <4>2 DEF Timely, RestIsShort, RenewalIsTimely, RetryIsTimely, InFlight
    <3>3. CASE req[k].stage = "granted"
      <4>1. lease.age <= req[k].age
        BY <2>1, <2>4, <3>1, <3>3 DEF KInv, GrantsAreYoung, Holds, Alive, InFlight
      <4>2. lease.age + Latency <= Slack(faults') + req[k].age
        BY <1>2, <2>2, <2>4, <4>1
      <4>3. QED
        BY <1>1, <2>1, <2>4, <4>2 DEF Timely, RestIsShort, RenewalIsTimely, RetryIsTimely, InFlight
    <3>4. QED
      BY <2>4, <3>1, <3>2, <3>3
  <2>5. QED
    BY <2>3, <2>4
<1>9. QED
  BY <1>2, <1>3, <1>4, <1>5, <1>6, <1>7, <1>8 DEF KInv, LeaseIsYoung

\* A lease that ends leaves nothing to renew.
LEMMA NoLeaseKInv ==
  ASSUME KInv, lease' = NoLease, Shapes', KeepersRenew', TtlsAreAsked', RequestsAreYoung',
         UNCHANGED <<taken, held, life>>, faults' <= MaxFaults,
         \A th \in Threads : /\ req[th] = NoRequest => req'[th] = NoRequest
                             /\ InFlight(th, "take", "granted")' => req'[th] = req[th]
  PROVE  KInv'
<1>1. UnbornAreStill'
  BY DEF KInv, UnbornAreStill, HeldBy
<1>2. TokensAreOld' /\ GrantsAreYoung' /\ LeaseIsYoung'
  BY DEF KInv, TokensAreOld, GrantsAreYoung, LeaseIsYoung, Holds, HeldBy, InFlight
<1>3. QED
  BY <1>1, <1>2 DEF KInv

\* A new lease is held by nobody yet: its token is none that is known.
LEMMA TakeKInv == ASSUME KInv, KeepsMargin, NEW th \in Threads, CoreTake(th) PROVE KInv'
<1>1. InFlight(th, "take", "sent") /\ req[th] # NoRequest /\ req[th] \in AnyRequest
  BY DEF CoreTake, InFlight, KInv, Shapes
<1>2. th \notin Keepers
  BY <1>1 DEF KInv, KeepersRenew, InFlight
<1>3. CASE Refuse(th)
  BY <1>1, <1>2, <1>3, RefusedKInv DEF Refuse, InFlight
<1>4. CASE /\ taken' = taken + 1
           /\ lease' = [token |-> taken + 1, ttl |-> req[th].ttl, age |-> 0, holder |-> Home[th]]
           /\ Answer(th, "granted", taken + 1, req[th].ttl)
           /\ UNCHANGED <<held, env, life, faults>>
  <2>1. taken \in Nat /\ taken + 1 \in Nat /\ req[th].ttl \in Nat /\ req[th].ttl \in Ttls
    BY <1>1 DEF KInv, Shapes, AnyRequest, TtlsAreAsked, InFlight
  <2>2. /\ req' \in [Threads -> AnyRequest \cup {NoRequest}]
        /\ req'[th] # NoRequest /\ req'[th].op = "take" /\ req'[th].stage = "granted"
        /\ req'[th].token = taken + 1 /\ req'[th].ttl = req[th].ttl /\ req'[th].age = req[th].age
        /\ \A u \in Threads \ {th} : req'[u] = req[u]
    BY <1>1, <1>4, <2>1, AnswerShape DEF KInv, InFlight
  <2>3. /\ lease' \in AnyLease
        /\ lease'.token = taken + 1 /\ lease'.ttl = req[th].ttl /\ lease'.age = 0
        /\ lease'.holder = Home[th]
    BY <1>4, <2>1 DEF AnyLease
  <2>4. Shapes' /\ KeepersRenew'
    BY <1>2, <1>4, <2>1, <2>2, <2>3 DEF KInv, Shapes, KeepersRenew
  <2>5. UnbornAreStill'
    BY <1>1, <1>4, <2>2, <2>3 DEF KInv, UnbornAreStill, HeldBy
  <2>6. TokensAreOld'
    BY <1>4, <2>1, <2>2, <2>3, Numbers DEF KInv, TokensAreOld, InFlight
  <2>7. TtlsAreAsked'
    BY <1>4, <2>1, <2>2, <2>3 DEF KInv, TtlsAreAsked, AllTtls
  <2>8. RequestsAreYoung'
    BY <1>1, <1>4, <2>2 DEF KInv, RequestsAreYoung, Alive
  <2>9. GrantsAreYoung'
    BY <2>3, <2>4 DEF GrantsAreYoung, Shapes, AnyRequest, Told, InFlight
  <2>10. LeaseIsYoung'
    BY <1>4, <2>1, <2>3, Numbers DEF KInv, TokensAreOld, LeaseIsYoung, Holds, HeldBy
  <2>11. QED
    BY <1>4, <2>4, <2>5, <2>6, <2>7, <2>8, <2>9, <2>10 DEF KInv
<1>5. QED
  BY <1>3, <1>4 DEF CoreTake

\* A renewed lease is as young as can be.
LEMMA RenewKInv == ASSUME KInv, KeepsMargin, NEW th \in Threads, CoreRenew(th) PROVE KInv'
<1>1. InFlight(th, "renew", "sent") /\ req[th] # NoRequest /\ req[th] \in AnyRequest
  BY DEF CoreRenew, InFlight, KInv, Shapes
<1>2. CASE ~ ShowsLiveToken(th)
  BY <1>1, <1>2, RefusedKInv DEF CoreRenew, Refuse, InFlight, ShowsLiveToken
<1>3. CASE ShowsLiveToken(th)
  <2> DEFINE ttl == IF req[th].ttl = NoTtl THEN lease.ttl ELSE req[th].ttl
  <2>1. /\ lease \in AnyLease /\ lease # NoLease /\ ttl \in Nat /\ ttl \in Ttls
        /\ req[th].token \in Nat
    BY <1>1, <1>3 DEF ShowsLiveToken, KInv, Shapes, AnyLease, AnyRequest, TtlsAreAsked, InFlight
  <2>2. /\ lease' = [lease EXCEPT !.ttl = ttl, !.age = 0]
        /\ Answer(th, "granted", req[th].token, ttl)
        /\ UNCHANGED <<taken, held, env, life, faults>>
    BY <1>3 DEF CoreRenew
  <2> HIDE DEF ttl
  <2>3. /\ req' \in [Threads -> AnyRequest \cup {NoRequest}]
        /\ req'[th] # NoRequest /\ req'[th].op = "renew" /\ req'[th].stage = "granted"
        /\ req'[th].ttl = ttl /\ req'[th].age = req[th].age
        /\ \A u \in Threads \ {th} : req'[u] = req[u]
    BY <1>1, <2>1, <2>2, AnswerShape DEF KInv, InFlight
  <2>4. /\ lease' \in AnyLease
        /\ lease'.token = lease.token /\ lease'.holder = lease.holder
        /\ lease'.ttl = ttl /\ lease'.age = 0
    BY <2>1, <2>2 DEF AnyLease
  <2>5. Shapes' /\ KeepersRenew'
    BY <2>2, <2>3, <2>4 DEF KInv, Shapes, KeepersRenew
  <2>6. UnbornAreStill'
    BY <1>1, <2>1, <2>2, <2>3, <2>4 DEF KInv, UnbornAreStill, HeldBy
  <2>7. TokensAreOld'
    BY <2>1, <2>2, <2>3, <2>4 DEF KInv, TokensAreOld, InFlight
  <2>8. TtlsAreAsked'
    BY <2>1, <2>2, <2>3, <2>4 DEF KInv, TtlsAreAsked, AllTtls
  <2>9. RequestsAreYoung'
    BY <1>1, <2>2, <2>3 DEF KInv, RequestsAreYoung, Alive
  <2>10. GrantsAreYoung'
    BY <2>4, <2>5 DEF GrantsAreYoung, Shapes, AnyRequest, Told, InFlight
  <2>11. ASSUME NEW k \in Keepers, Holds(Home[k])' PROVE Timely(k)'
    <3>1. Holds(Home[k]) /\ Timely(k)
      BY <2>1, <2>2, <2>4, <2>11 DEF Holds, HeldBy, KInv, LeaseIsYoung
    <3>2. /\ held[Home[k]].age \in Nat /\ MaxWait \in Nat /\ Slack(faults) \in Nat
          /\ 2 * Latency <= Slack(faults)
          /\ req'[k] # NoRequest => req'[k].age \in Nat
      BY <2>5, Numbers, Margins DEF KInv, Shapes, AnyRequest
    <3>3. RestIsShort(k)'
      BY <1>1, <2>2, <2>3, <2>4, <3>1, <3>2 DEF Timely, RestIsShort
    <3>4. RenewalIsTimely(k)' /\ RetryIsTimely(k)'
      BY <2>2, <2>4, <3>2 DEF RenewalIsTimely, RetryIsTimely, InFlight
    <3>5. QED
      BY <2>2, <3>1, <3>3, <3>4 DEF Timely
  <2>12. QED
    BY <2>2, <2>5, <2>6, <2>7, <2>8, <2>9, <2>10, <2>11 DEF KInv, LeaseIsYoung
<1>4. QED
  BY <1>2, <1>3

LEMMA ReleaseKInv == ASSUME KInv, KeepsMargin, NEW th \in Threads, CoreRelease(th) PROVE KInv'
<1>1. InFlight(th, "release", "sent") /\ req[th] # NoRequest /\ req[th] \in AnyRequest
  BY DEF CoreRelease, InFlight, KInv, Shapes
<1>2. CASE ~ ShowsLiveToken(th)
  BY <1>1, <1>2, RefusedKInv DEF CoreRelease, Refuse, InFlight, ShowsLiveToken
<1>3. CASE ShowsLiveToken(th)
  <2>1. /\ lease' = NoLease
        /\ Answer(th, "granted", req[th].token, 0)
        /\ UNCHANGED <<taken, held, env, life, faults>>
    BY <1>3 DEF CoreRelease, NoTtl
  <2>2. req[th].token \in Nat
    BY <1>1 DEF AnyRequest
  <2>3. /\ req' \in [Threads -> AnyRequest \cup {NoRequest}]
        /\ req'[th].op = "release" /\ req'[th].ttl = 0 /\ req'[th].age = req[th].age
        /\ \A u \in Threads \ {th} : req'[u] = req[u]
    BY <1>1, <2>1, <2>2, AnswerShape DEF KInv, InFlight
  <2>4. th \notin Keepers
    BY <1>1 DEF KInv, KeepersRenew, InFlight
  <2>5. Shapes' /\ KeepersRenew'
    BY <2>1, <2>3, <2>4 DEF KInv, Shapes, KeepersRenew
  <2>6. TtlsAreAsked' /\ RequestsAreYoung'
    BY <1>1, <2>1, <2>3 DEF KInv, TtlsAreAsked, RequestsAreYoung, AllTtls, NoTtl, Alive
  <2>7. \A u \in Threads : /\ req[u] = NoRequest => req'[u] = NoRequest
                           /\ InFlight(u, "take", "granted")' => req'[u] = req[u]
    BY <1>1, <2>3 DEF InFlight
  <2>8. faults' <= MaxFaults
    BY <2>1 DEF KInv
  <2>9. QED
    BY <2>1, <2>5, <2>6, <2>7, <2>8, NoLeaseKInv
<1>4. QED
  BY <1>2, <1>3

LEMMA EndsKInv == ASSUME KInv, Expire \/ CoreRestart PROVE KInv'
<1>1. /\ lease' = NoLease /\ UNCHANGED <<taken, held, env, req, life>>
      /\ faults' \in Nat /\ faults' <= MaxFaults
  BY DEF Expire, CoreRestart, Fault, KInv, Shapes
<1>2. Shapes' /\ KeepersRenew'
  BY <1>1 DEF KInv, Shapes, KeepersRenew
<1>3. TtlsAreAsked' /\ RequestsAreYoung'
  BY <1>1 DEF KInv, TtlsAreAsked, RequestsAreYoung, Alive
<1>4. QED
  BY <1>1, <1>2, <1>3, NoLeaseKInv DEF InFlight

\* Whoever is gone renews nothing; the others are left alone.
LEMMA GoneKInv ==
  ASSUME KInv, NEW s \in Sessions, life[s] = "alive", Vanish(s),
         UNCHANGED <<lease, taken, faults>>,
         req' \in [Threads -> AnyRequest \cup {NoRequest}],
         \A th \in Threads : req'[th] \in {req[th], NoRequest},
         \A th \in Threads : Home[th] # s => req'[th] = req[th]
  PROVE  KInv'
<1>1. /\ life' = [life EXCEPT ![s] = "dead"]
      /\ held' \in [Sessions -> AnyHeld] /\ env' \in [Sessions -> Nat]
      /\ held'[s].token = 0 /\ held'[s].ttl = NoTtl
      /\ \A r \in Sessions \ {s} : held'[r] = held[r]
  BY DEF Vanish, KInv, Shapes, AnyHeld, Default, NoToken, NoTtl
<1>2. life'[s] = "dead" /\ \A r \in Sessions \ {s} : life'[r] = life[r]
  BY <1>1 DEF KInv, Shapes
<1>3. Shapes' /\ KeepersRenew'
  BY <1>1 DEF KInv, Shapes, KeepersRenew
<1>4. UnbornAreStill'
  BY <1>2 DEF KInv, UnbornAreStill, HeldBy
<1>5. TokensAreOld'
  BY <1>1, Numbers DEF KInv, TokensAreOld, InFlight
<1>6. TtlsAreAsked'
  BY <1>1 DEF KInv, TtlsAreAsked, AllTtls
<1>7. RequestsAreYoung' /\ GrantsAreYoung'
  BY <1>2 DEF KInv, RequestsAreYoung, GrantsAreYoung, InFlight, Told, HeldBy, Alive
<1>8. ASSUME NEW k \in Keepers, Holds(Home[k])' PROVE Timely(k)'
  <2>1. Home[k] # s /\ Home[k] \in Sessions
    BY <1>2, <1>8 DEF Holds
  <2>2. Holds(Home[k]) /\ Timely(k)
    BY <1>1, <1>2, <1>8, <2>1 DEF Holds, HeldBy, KInv, LeaseIsYoung
  <2>3. QED
    BY <1>1, <2>1, <2>2 DEF Timely, RestIsShort, RenewalIsTimely, RetryIsTimely, InFlight
<1>9. QED
  BY <1>3, <1>4, <1>5, <1>6, <1>7, <1>8 DEF KInv, LeaseIsYoung

LEMMA KillKInv == ASSUME KInv, NEW s \in Sessions, Kill(s) PROVE KInv'
<1>1. PICK lost \in SUBSET {th \in Threads : Home[th] = s} :
        req' = [th \in Threads |-> IF th \in lost THEN NoRequest ELSE req[th]]
  BY DEF Kill
<1>2. QED
  BY <1>1, GoneKInv DEF Kill, KInv, Shapes

\* A process starts with any old token: it was granted no lease.
LEMMA StartKInv == ASSUME KInv, NEW s \in Sessions, Start(s) PROVE KInv'
<1>1. /\ UNCHANGED <<lease, taken, req, faults>> /\ life[s] = "unborn"
      /\ life' = [life EXCEPT ![s] = "alive"]
  BY DEF Start
<1>2. PICK token \in 0..taken :
        \/ env' = [env EXCEPT ![s] = token] /\ UNCHANGED held
        \/ held' = [held EXCEPT ![s].token = token] /\ UNCHANGED env
  BY DEF Start
<1>3. /\ held' \in [Sessions -> AnyHeld] /\ env' \in [Sessions -> Nat]
      /\ held'[s].token <= taken /\ held'[s].ttl = held[s].ttl
      /\ \A r \in Sessions \ {s} : held'[r] = held[r]
  BY <1>2 DEF KInv, Shapes, AnyHeld, TokensAreOld
<1>4. ~ HeldBy(s) /\ \A th \in Threads : Home[th] = s => req[th] = NoRequest
  BY <1>1 DEF KInv, UnbornAreStill
<1>5. \A r \in Sessions \ {s} : life'[r] = life[r]
  BY <1>1 DEF KInv, Shapes
<1>6. Shapes' /\ KeepersRenew'
  BY <1>1, <1>3 DEF KInv, Shapes, KeepersRenew
<1>7. UnbornAreStill'
  BY <1>1, <1>5 DEF KInv, UnbornAreStill, HeldBy, Shapes
<1>8. TokensAreOld'
  BY <1>1, <1>3 DEF KInv, TokensAreOld, InFlight
<1>9. TtlsAreAsked'
  BY <1>1, <1>3 DEF KInv, TtlsAreAsked
<1>10. RequestsAreYoung' /\ GrantsAreYoung'
  BY <1>1, <1>4, <1>5 DEF KInv, RequestsAreYoung, GrantsAreYoung, InFlight, Told, HeldBy, Alive
<1>11. ASSUME NEW k \in Keepers, Holds(Home[k])' PROVE Timely(k)'
  <2>1. Home[k] # s /\ Home[k] \in Sessions
    BY <1>1, <1>4, <1>11 DEF Holds, HeldBy
  <2>2. Holds(Home[k]) /\ Timely(k)
    BY <1>1, <1>3, <1>5, <1>11, <2>1 DEF Holds, HeldBy, KInv, LeaseIsYoung
  <2>3. QED
    BY <1>1, <1>3, <2>1, <2>2 DEF Timely, RestIsShort, RenewalIsTimely, RetryIsTimely, InFlight
<1>12. QED
  BY <1>1, <1>6, <1>7, <1>8, <1>9, <1>10, <1>11 DEF KInv, LeaseIsYoung

\* An answer is applied: what it leaves of the holder's token is in time.
LEMMA ReceiveKInv ==
  ASSUME KInv, NEW th \in Threads, NEW op, NEW stage, NEW new \in AnyHeld,
         Receive(th, op, stage, new), new.ttl \in AllTtls, new.token <= taken,
         \A k \in Keepers :
           Home[k] = Home[th] /\ HeldBy(Home[k]) /\ new.token = lease.token =>
             /\ new.ttl # NoTtl
             /\ k = th \/ req[k] = NoRequest =>
                  new.age <= MaxWait /\ lease.age <= new.age + Slack(faults)
             /\ k # th => RenewalIsTimely(k) /\ RetryIsTimely(k)
  PROVE  KInv'
<1> DEFINE s == Home[th]
<1>1. /\ s \in Sessions /\ life[s] = "alive"
      /\ req' = [req EXCEPT ![th] = NoRequest] /\ UNCHANGED <<lease, taken, faults>>
  BY DEF Receive, Alive
<1>2. /\ req' \in [Threads -> AnyRequest \cup {NoRequest}]
      /\ req'[th] = NoRequest /\ \A u \in Threads \ {th} : req'[u] = req[u]
  BY <1>1 DEF KInv, Shapes
<1>3. CASE ~ Serves(s)
  <2>1. Vanish(s)
    BY <1>3 DEF Receive
  <2>2. QED
    BY <1>1, <1>2, <2>1, GoneKInv
<1>4. CASE Serves(s)
  <2>1. held' = [held EXCEPT ![s] = new] /\ UNCHANGED <<env, life>>
    BY <1>4 DEF Receive
  <2>2. held' \in [Sessions -> AnyHeld] /\ held'[s] = new
        /\ \A r \in Sessions \ {s} : held'[r] = held[r]
    BY <1>1, <2>1 DEF KInv, Shapes
  <2>3. Shapes' /\ KeepersRenew'
    BY <1>1, <1>2, <2>1, <2>2 DEF KInv, Shapes, KeepersRenew
  <2>4. UnbornAreStill'
    BY <1>1, <1>2, <2>1 DEF KInv, UnbornAreStill, HeldBy
  <2>5. TokensAreOld' /\ TtlsAreAsked'
    BY <1>1, <1>2, <2>2 DEF KInv, TokensAreOld, TtlsAreAsked, InFlight
  <2>6. RequestsAreYoung' /\ GrantsAreYoung'
    BY <1>1, <1>2, <2>1 DEF KInv, RequestsAreYoung, GrantsAreYoung, InFlight, Told, HeldBy, Alive
  <2>7. ASSUME NEW k \in Keepers, Holds(Home[k])' PROVE Timely(k)'
    <3>1. CASE Home[k] # s
      <4>1. Home[k] \in Sessions /\ k # th
        BY <3>1
      <4>2. Holds(Home[k]) /\ Timely(k)
        BY <1>1, <2>1, <2>2, <2>7, <3>1, <4>1 DEF Holds, HeldBy, KInv, LeaseIsYoung
      <4>3. QED
        BY <1>1, <1>2, <2>2, <3>1, <4>1, <4>2
           DEF Timely, RestIsShort, RenewalIsTimely, RetryIsTimely, InFlight
    <3>2. CASE Home[k] = s
      <4>1. HeldBy(Home[k]) /\ new.token = lease.token
        BY <1>1, <2>2, <2>7, <3>2 DEF Holds, HeldBy
      <4>2. CASE k = th
        BY <1>1, <1>2, <2>2, <3>2, <4>1, <4>2
           DEF Timely, RestIsShort, RenewalIsTimely, RetryIsTimely, InFlight
      <4>3. CASE k # th
        BY <1>1, <1>2, <2>2, <3>2, <4>1, <4>3
           DEF Timely, RestIsShort, RenewalIsTimely, RetryIsTimely, InFlight
      <4>4. QED
        BY <4>2, <4>3
    <3>3. QED
      BY <3>1, <3>2
  <2>8. QED
    BY <1>1, <2>3, <2>4, <2>5, <2>6, <2>7 DEF KInv, LeaseIsYoung
<1>5. QED
  BY <1>3, <1>4

LEMMA ReplyKInv == ASSUME KInv, KeepsMargin, NEW th \in Threads, ReplyStep(th) PROVE KInv'
<1> DEFINE s == Home[th]
           mine == held[s]
<1>1. /\ s \in Sessions /\ mine \in AnyHeld /\ req[th] \in AnyRequest \cup {NoRequest}
      /\ mine.token <= taken /\ mine.ttl \in AllTtls /\ taken \in Nat
  BY Numbers DEF KInv, Shapes, TokensAreOld, TtlsAreAsked
<1>2. /\ MaxWait \in Nat /\ Slack(faults) \in Nat /\ 2 * Latency <= Slack(faults)
      /\ \A u \in Threads : req[u] # NoRequest => req[u].age \in Nat
      /\ lease # NoLease => lease.age \in Nat /\ lease.token \in 1..taken
  BY Numbers, Margins DEF KInv, TokensAreOld
<1>3. ReplyStep(th) => Alive(th) /\ req[th] # NoRequest /\ req[th].age <= Latency
  BY DEF ReplyStep, TakeAnswered, RenewAnswered, ReleaseAnswered, ToolRefused, KeepaliveRefused,
         Receive, InFlight, KInv, RequestsAreYoung
\* The lease is as young as the answer that is told.
<1>4. ASSUME NEW k \in Keepers, Home[k] = s, HeldBy(s), lease.age <= Latency
      PROVE  lease.age <= 0 + Slack(faults) /\ RenewalIsTimely(k) /\ RetryIsTimely(k)
  BY <1>2, <1>4 DEF HeldBy, RenewalIsTimely, RetryIsTimely, InFlight
<1>5. CASE TakeAnswered(th)
  <2> DEFINE new == [token |-> req[th].token, ttl |-> req[th].ttl, age |-> 0]
  <2>1. Receive(th, "take", "granted", new) /\ InFlight(th, "take", "granted")
    BY <1>5 DEF TakeAnswered, Receive
  <2>2. new \in AnyHeld /\ new.token = req[th].token /\ new.ttl = req[th].ttl /\ new.age = 0
    BY <1>1, <2>1 DEF InFlight, AnyHeld, AnyRequest
  <2> HIDE DEF new
  <2>3. new.ttl \in Ttls /\ new.ttl \in AllTtls /\ new.ttl # NoTtl /\ new.token <= taken
    BY <2>1, <2>2 DEF KInv, TtlsAreAsked, TokensAreOld, InFlight, AllTtls, NoTtl
  <2>4. HeldBy(s) /\ new.token = lease.token => lease.age <= Latency
    <3>1. Alive(th) /\ req[th].age \in Nat /\ req[th].age <= Latency
      BY <1>2, <1>3, <1>5, <2>1 DEF ReplyStep
    <3>2. HeldBy(s) /\ new.token = lease.token => lease # NoLease /\ Told(th, lease.token)
      BY <2>1, <2>2 DEF HeldBy, Told
    <3>3. QED
      BY <1>2, <3>1, <3>2 DEF KInv, GrantsAreYoung
  <2>5. QED
    BY <1>1, <1>2, <1>4, <2>1, <2>2, <2>3, <2>4, ReceiveKInv
<1>6. CASE RenewAnswered(th)
  <2> DEFINE new == [mine EXCEPT !.ttl = req[th].ttl, !.age = 0]
  <2>1. Receive(th, "renew", "granted", new) /\ InFlight(th, "renew", "granted")
    BY <1>6 DEF RenewAnswered, Receive
  <2>2. new \in AnyHeld /\ new.token = mine.token /\ new.ttl = req[th].ttl /\ new.age = 0
    BY <1>1, <2>1 DEF InFlight, AnyHeld, AnyRequest
  <2> HIDE DEF new
  <2>3. new.ttl \in Ttls /\ new.ttl \in AllTtls /\ new.ttl # NoTtl /\ new.token <= taken
    BY <1>1, <2>1, <2>2 DEF KInv, TtlsAreAsked, InFlight, AllTtls, NoTtl
  <2>4. HeldBy(s) => lease.age <= Latency
    BY <1>2, <1>3, <2>1 DEF KInv, GrantsAreYoung, HeldBy
  <2>5. QED
    BY <1>1, <1>2, <1>4, <2>1, <2>2, <2>3, <2>4, ReceiveKInv
<1>7. CASE ReleaseAnswered(th)
  <2>1. /\ Default \in AnyHeld /\ Default.token = 0 /\ Default.ttl \in AllTtls
        /\ Receive(th, "release", "granted", Default)
    BY <1>7 DEF Default, AnyHeld, NoToken, NoTtl, AllTtls, ReleaseAnswered
  <2>2. HeldBy(s) => Default.token # lease.token
    BY <1>2, <2>1 DEF HeldBy
  <2>3. QED
    BY <1>1, <2>1, <2>2, ReceiveKInv
\* The keepalive is as it was: its session holds what it held.
<1>8. HeldBy(s) /\ mine.token = lease.token => \A k \in Keepers : Home[k] = s => Timely(k)
  BY <1>3 DEF KInv, LeaseIsYoung, Holds, Alive
<1>9. CASE ToolRefused(th)
  <2>1. PICK op \in {"take", "renew", "release"} : Receive(th, op, "refused", mine)
    BY <1>9 DEF ToolRefused
  <2>2. th \notin Keepers
    BY <1>9 DEF ToolRefused
  <2>3. ASSUME NEW k \in Keepers, Home[k] = s, HeldBy(Home[k]), mine.token = lease.token
        PROVE  /\ mine.ttl # NoTtl
               /\ k = th \/ req[k] = NoRequest =>
                    mine.age <= MaxWait /\ lease.age <= mine.age + Slack(faults)
               /\ k # th => RenewalIsTimely(k) /\ RetryIsTimely(k)
    BY <1>8, <2>2, <2>3 DEF Timely, RestIsShort
  <2>4. QED
    BY <1>1, <2>1, <2>3, ReceiveKInv
<1>10. CASE KeepaliveRefused(th)
  <2> DEFINE ttl == IF mine.ttl = NoTtl THEN DefaultTtl ELSE mine.ttl
             new == [mine EXCEPT !.ttl = ttl, !.age = 0]
  <2>1. Receive(th, "renew", "refused", new) /\ InFlight(th, "renew", "refused") /\ th \in Keepers
    BY <1>10 DEF KeepaliveRefused, Receive
  <2>2. new \in AnyHeld /\ new.token = mine.token /\ new.ttl = ttl /\ new.age = 0
    BY <1>1 DEF AnyHeld
  <2>3. ttl \in AllTtls /\ ttl # NoTtl
    BY <1>1 DEF AllTtls, NoTtl
  <2> HIDE DEF new, ttl
  <2>4. ASSUME NEW k \in Keepers, Home[k] = s, HeldBy(Home[k]), new.token = lease.token
        PROVE  k = th /\ lease.age <= 0 + Slack(faults)
    <3>1. k = th /\ RetryIsTimely(th)
      BY <1>8, <2>1, <2>2, <2>4 DEF Timely
    <3>2. QED
      BY <1>2, <1>3, <2>1, <2>4, <3>1 DEF RetryIsTimely, HeldBy
  <2>5. QED
    BY <1>1, <1>2, <2>1, <2>2, <2>3, <2>4, ReceiveKInv
<1>11. QED
  BY <1>5, <1>6, <1>7, <1>9, <1>10 DEF ReplyStep

LEMMA LoseKInv == ASSUME KInv, KeepsMargin, NEW th \in Threads, Lose(th) PROVE KInv'
<1>1. faults' = faults + 1 /\ faults' <= MaxFaults
  BY DEF Lose, Fault, KInv, Shapes
<1>2. QED
  BY <1>1, RefusedKInv DEF Lose

\* A second passes: no renewal is overdue, and no request older than it may be.
LEMMA TickKInv == ASSUME KInv, KeepsMargin, Tick PROVE KInv'
<1>1. /\ lease' = IF lease = NoLease THEN NoLease ELSE [lease EXCEPT !.age = @ + 1]
      /\ UNCHANGED <<taken, env, life, faults>>
  BY DEF Tick
<1>2. /\ MaxWait \in Nat /\ Slack(faults) \in Nat
      /\ \A ttl \in AllTtls : ttl \in Nat /\ Third(ttl) \in Nat /\ Third(ttl) + 1 <= MaxWait
  BY Margins, Numbers DEF KInv
<1>3. /\ lease' \in AnyLease \cup {NoLease}
      /\ lease' # NoLease =>
           /\ lease # NoLease /\ lease.age \in Nat /\ lease'.age = lease.age + 1
           /\ lease'.token = lease.token /\ lease'.ttl = lease.ttl /\ lease'.holder = lease.holder
  BY <1>1 DEF KInv, Shapes, AnyLease
<1>4. \A age, limit \in Nat : Older(age, limit) \in Nat /\ (age < limit => Older(age, limit) = age + 1)
  BY DEF Older
<1>5. /\ held' \in [Sessions -> AnyHeld]
      /\ \A s \in Sessions :
           /\ held'[s].token = held[s].token /\ held'[s].ttl = held[s].ttl
           /\ held[s].ttl # NoTtl /\ held[s].age < MaxWait => held'[s].age = held[s].age + 1
  <2>1. ASSUME NEW s \in Sessions
        PROVE  /\ held'[s] \in AnyHeld
               /\ held'[s].token = held[s].token /\ held'[s].ttl = held[s].ttl
               /\ held[s].ttl # NoTtl /\ held[s].age < MaxWait => held'[s].age = held[s].age + 1
    <3>1. held[s] \in AnyHeld
      BY DEF KInv, Shapes
    <3>2. held'[s] = IF held[s].ttl = NoTtl THEN held[s]
                     ELSE [held[s] EXCEPT !.age = Older(@, MaxWait)]
      BY DEF Tick
    <3>3. QED
      BY <1>2, <1>4, <3>1, <3>2 DEF AnyHeld
  <2>2. QED
    BY <2>1 DEF Tick
<1>6. /\ req' \in [Threads -> AnyRequest \cup {NoRequest}]
      /\ \A th \in Threads :
           IF req[th] = NoRequest THEN req'[th] = NoRequest
           ELSE /\ req'[th] # NoRequest /\ req'[th].op = req[th].op
                /\ req'[th].stage = req[th].stage /\ req'[th].token = req[th].token
                /\ req'[th].ttl = req[th].ttl
                /\ Alive(th) => /\ req[th].age \in Nat /\ req'[th].age = req[th].age + 1
                                /\ req'[th].age <= Latency
  <2>1. ASSUME NEW th \in Threads, req[th] # NoRequest
        PROVE  /\ req'[th] \in AnyRequest /\ req'[th] # NoRequest /\ req'[th].op = req[th].op
               /\ req'[th].stage = req[th].stage /\ req'[th].token = req[th].token
               /\ req'[th].ttl = req[th].ttl
               /\ Alive(th) => /\ req[th].age \in Nat /\ req'[th].age = req[th].age + 1
                               /\ req'[th].age <= Latency
    <3>1. req[th] \in AnyRequest /\ req[th].age \in Nat
      BY <2>1 DEF KInv, Shapes, AnyRequest
    <3>2. req'[th] = [req[th] EXCEPT !.age = Older(@, Latency)]
      BY <2>1 DEF Tick
    <3>3. Alive(th) => req[th].age < Latency
      BY <2>1 DEF Tick
    <3>4. req'[th] \in AnyRequest /\ req'[th].age = Older(req[th].age, Latency)
      BY <1>4, <3>1, <3>2 DEF AnyRequest
    <3>5. QED
      BY <1>4, <3>1, <3>2, <3>3, <3>4 DEF AnyRequest
  <2>2. ASSUME NEW th \in Threads, req[th] = NoRequest PROVE req'[th] = NoRequest
    BY <2>2 DEF Tick
  <2>3. req' = [th \in Threads |-> req'[th]]
    BY DEF Tick
  <2>4. QED
    BY <2>1, <2>2, <2>3
<1>7. Shapes' /\ KeepersRenew'
  BY <1>1, <1>3, <1>5, <1>6 DEF KInv, Shapes, KeepersRenew
<1>8. UnbornAreStill'
  BY <1>1, <1>3, <1>6 DEF KInv, UnbornAreStill, HeldBy
<1>9. TokensAreOld'
  BY <1>1, <1>3, <1>5, <1>6 DEF KInv, TokensAreOld, InFlight
<1>10. TtlsAreAsked'
  BY <1>1, <1>3, <1>5, <1>6 DEF KInv, TtlsAreAsked
<1>11. RequestsAreYoung'
  BY <1>1, <1>6 DEF RequestsAreYoung, Alive
<1>12. GrantsAreYoung'
  BY <1>1, <1>3, <1>6 DEF KInv, GrantsAreYoung, InFlight, Told, HeldBy, Alive
<1>13. ASSUME NEW k \in Keepers, Holds(Home[k])' PROVE Timely(k)'
  <2>1. Holds(Home[k]) /\ Timely(k) /\ Alive(k)
    BY <1>1, <1>3, <1>5, <1>13 DEF Holds, HeldBy, KInv, LeaseIsYoung, Alive
  <2>2. RestIsShort(k)'
    <3>1. SUFFICES ASSUME req'[k] = NoRequest
                   PROVE  held'[Home[k]].age <= MaxWait /\ lease'.age <= held'[Home[k]].age + Slack(faults)
      BY <1>1 DEF RestIsShort
    <3>2. req[k] = NoRequest
      BY <1>6, <3>1
    <3>3. EffectiveToken(Home[k]) # NoToken
      BY <2>1 DEF Holds, HeldBy, KInv, TokensAreOld, EffectiveToken, NoToken
    <3>4. /\ held[Home[k]].ttl # NoTtl /\ held[Home[k]].ttl \in AllTtls
          /\ held[Home[k]].age \in Nat /\ lease.age <= held[Home[k]].age + Slack(faults)
      BY <2>1, <3>2, Numbers DEF Timely, RestIsShort, KInv, TtlsAreAsked
    <3>5. held[Home[k]].age <= Third(held[Home[k]].ttl)
      BY <1>2, <2>1, <3>2, <3>3, <3>4 DEF Tick, Idle, Overdue
    <3>6. held'[Home[k]].age = held[Home[k]].age + 1 /\ held'[Home[k]].age <= MaxWait
      BY <1>2, <1>5, <3>4, <3>5
    <3>7. QED
      BY <1>2, <1>3, <1>13, <3>4, <3>6 DEF Holds, HeldBy
  <2>3. RenewalIsTimely(k)' /\ RetryIsTimely(k)'
    BY <1>1, <1>2, <1>3, <1>6, <1>13, <2>1
       DEF Timely, RenewalIsTimely, RetryIsTimely, InFlight, Holds, HeldBy
  <2>4. QED
    BY <1>5, <2>1, <2>2, <2>3 DEF Timely
<1>14. QED
  BY <1>1, <1>7, <1>8, <1>9, <1>10, <1>11, <1>12, <1>13 DEF KInv, LeaseIsYoung

LEMMA NextKInv == ASSUME KeepsMargin PROVE KInv /\ [Next]_vars => KInv'
<1> SUFFICES ASSUME KInv, [Next]_vars PROVE KInv'
  OBVIOUS
<1>1. CASE \E s \in Sessions : Start(s) \/ Kill(s)
  BY <1>1, StartKInv, KillKInv
<1>2. CASE \E th \in Threads : CallTake(th) \/ CallRenew(th) \/ CallRelease(th) \/ WakeAndRenew(th)
  BY <1>2, CallsKInv
<1>3. CASE \E th \in Threads : CoreStep(th)
  BY <1>3, TakeKInv, RenewKInv, ReleaseKInv DEF CoreStep
<1>4. CASE \E th \in Threads : ReplyStep(th) \/ Lose(th)
  BY <1>4, ReplyKInv, LoseKInv
<1>5. CASE Expire \/ CoreRestart \/ Tick
  BY <1>5, EndsKInv, TickKInv
<1>6. CASE UNCHANGED vars
  BY <1>6 DEF vars, KInv, Shapes, KeepersRenew, UnbornAreStill, TokensAreOld, TtlsAreAsked,
              RequestsAreYoung, GrantsAreYoung, LeaseIsYoung, Timely, RestIsShort,
              RenewalIsTimely, RetryIsTimely, Holds, HeldBy, InFlight, Told, Alive
<1>7. QED
  BY <1>1, <1>2, <1>3, <1>4, <1>5, <1>6 DEF Next

\* A renewal is late by at most the answers that crossed and the renewals that were lost.
LEMMA KeptInTime == ASSUME KInv, KeepsMargin PROVE KeepaliveHolds
<1> SUFFICES ASSUME NEW s \in Sessions, Kept(s), lease # NoLease, lease.holder = s,
                    held[s].token = lease.token
             PROVE  lease.age < lease.ttl
  BY DEF KeepaliveHolds
<1>1. PICK k \in Keepers : Home[k] = s
  BY DEF Kept, Serves
<1>2. Timely(k) /\ Alive(k)
  BY <1>1 DEF KInv, LeaseIsYoung, Holds, HeldBy, Kept, Alive
<1>3. /\ lease.ttl \in Ttls /\ lease.ttl \in Nat /\ lease.age \in Nat
      /\ held[s].age \in Nat /\ MaxWait \in Nat /\ Slack(faults) \in Nat
      /\ 2 * Latency <= Slack(faults) /\ Slack(faults) + MaxWait + Latency < lease.ttl
  BY Numbers, Margins DEF KInv, TtlsAreAsked
<1>4. CASE req[k] = NoRequest
  BY <1>1, <1>2, <1>3, <1>4 DEF Timely, RestIsShort
<1>5. CASE req[k] # NoRequest
  <2>1. /\ req[k].age \in Nat /\ req[k].age <= Latency /\ req[k].op = "renew"
        /\ req[k].stage \in {"sent", "granted", "refused"}
    BY <1>2, <1>5 DEF KInv, Shapes, AnyRequest, RequestsAreYoung, KeepersRenew
  <2>2. CASE req[k].stage = "sent"
    BY <1>2, <1>3, <1>5, <2>1, <2>2 DEF Timely, RenewalIsTimely, InFlight
  <2>3. CASE req[k].stage = "granted"
    <3>1. lease.age <= req[k].age
      BY <1>1, <1>2, <1>5, <2>1, <2>3 DEF KInv, GrantsAreYoung, HeldBy, InFlight
    <3>2. QED
      BY <1>3, <2>1, <3>1
  <2>4. CASE req[k].stage = "refused"
    BY <1>2, <1>3, <1>5, <2>1, <2>4 DEF Timely, RetryIsTimely, InFlight
  <2>5. QED
    BY <2>1, <2>2, <2>3, <2>4
<1>6. QED
  BY <1>4, <1>5

\* "This server ... renews it on a timer for as long as it runs", and "a failed renew is
\* ... retried a third of a TTL later, never fatal": for any sessions, tool calls, grants
\* and faults, the lease of a session whose keepalive runs and which sends its token never
\* comes to the age at which Core may drop it, if the shortest TTL that is asked for
\* exceeds what the longest wait, the slowest answer and the lost renewals add up to.
THEOREM KeepaliveOutrunsExpiry ==
  ASSUME KeepsMargin PROVE Spec => []KeepaliveHolds
<1>1. KInv => KeepaliveHolds
  BY KeptInTime
<1>2. KInv /\ [Next]_vars => KInv'
  BY NextKInv
<1>3. Spec => []KInv
  BY InitKInv, <1>2, PTL DEF Spec
<1>4. QED
  BY <1>1, <1>3, PTL
===============================================================================
