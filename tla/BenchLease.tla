------------------------------ MODULE BenchLease ------------------------------
(***************************************************************************)
(* The client half of the bench lease: CoreClient::lease_take, lease_renew, *)
(* lease_release and lease_keepalive of                                     *)
(* crates/embarch-core-client/src/client.rs, run by MCP servers (which      *)
(* spawn the keepalive) and by CLI processes (which do not).  Core itself   *)
(* is not in the repository: it is modelled from what the client relies on. *)
(*                                                                         *)
(* A request carries the token read when it is sent; Core handles it later, *)
(* and its answer is applied to HeldLease later still, with no lock held in *)
(* between.  So a session's tool call and its keepalive interleave.         *)
(*                                                                         *)
(* Time runs in ticks of a second.  An age counts the ticks since an event, *)
(* so the time elapsed is within one tick of it either way.                 *)
(***************************************************************************)
EXTENDS Integers, FiniteSets

CONSTANTS
  Sessions,    \* processes: MCP servers and CLI calls
  Threads,     \* tool calls and keepalive tasks
  Keepers,     \* the threads that are keepalive tasks
  Home,        \* [Threads -> Sessions]
  Ttls,        \* the ttl_s values that are asked for
  DefaultTtl,  \* what a failed keepalive assumes of a token of unknown TTL
  Latency,     \* ticks an answered request may take; afterwards it fails
  NoRequest,   \* "nothing in flight"
  NoLease,     \* "no lease is live"
  MaxTakes,    \* bound: leases Core grants
  MaxFaults    \* bound: lost requests, lost replies and Core restarts

ASSUME LeaseAssumption ==
  /\ Keepers \subseteq Threads
  /\ Home \in [Threads -> Sessions]
  /\ \A j, k \in Keepers : Home[j] = Home[k] => j = k
  /\ Ttls \subseteq Nat \ {0}
  /\ DefaultTtl \in Nat \ {0}
  /\ {Latency, MaxTakes, MaxFaults} \subseteq Nat
  /\ NoRequest \notin [op : {"take", "renew", "release"}, ttl : Nat, token : Nat,
                       stage : {"sent", "granted", "refused"}, age : Nat]

VARIABLES
  lease,   \* Core's live lease, and the session it was granted to
  taken,   \* leases granted so far; the n-th lease has token n
  held,    \* [Sessions -> HeldLease]
  env,     \* [Sessions -> EMBARCH_LEASE_TOKEN of the process]
  req,     \* [Threads -> the request in flight]
  life,    \* [Sessions -> whether the process runs]
  faults

vars == <<lease, taken, held, env, req, life, faults>>

NoToken == 0
NoTtl   == 0
Tokens  == 0..MaxTakes
AllTtls == Ttls \cup {NoTtl, DefaultTtl}

AtLeastOne(n) == IF n = 0 THEN 1 ELSE n
\* Not the code: a renewal due after half of the TTL.
Half(ttl) == AtLeastOne(ttl \div 2)

\* (ttl / 3).max(1): how long after a renew the next one is due.
Third(ttl) == AtLeastOne(ttl \div 3)

\* The longest TTL, and the longest age that HeldLease is told apart by.
MaxTtl  == CHOOSE n \in AllTtls : \A m \in AllTtls : m <= n
MaxWait == Third(MaxTtl) + 1

Leases   == [token : Tokens, ttl : Ttls, age : 0..MaxTtl + 1, holder : Sessions]
Requests == [op : {"take", "renew", "release"}, ttl : AllTtls, token : Tokens,
             stage : {"sent", "granted", "refused"}, age : 0..Latency]

\* HeldLease; ttl_s and renewed are None together.
Helds    == [token : Tokens, ttl : AllTtls, age : 0..MaxWait]
Default  == [token |-> NoToken, ttl |-> NoTtl, age |-> 0]

TypeOK ==
  /\ lease \in Leases \cup {NoLease}
  /\ taken \in Tokens
  /\ held \in [Sessions -> Helds]
  /\ env \in [Sessions -> Tokens]
  /\ req \in [Threads -> Requests \cup {NoRequest}]
  /\ life \in [Sessions -> {"unborn", "alive", "dead"}]
  /\ faults \in 0..MaxFaults

Init ==
  /\ lease = NoLease
  /\ taken = 0
  /\ held = [s \in Sessions |-> Default]
  /\ env = [s \in Sessions |-> NoToken]
  /\ req = [th \in Threads |-> NoRequest]
  /\ life = [s \in Sessions |-> "unborn"]
  /\ faults = 0

Alive(th) == life[Home[th]] = "alive"
Serves(s) == \E k \in Keepers : Home[k] = s
Idle(th)  == Alive(th) /\ req[th] = NoRequest
InFlight(th, op, stage) == req[th] # NoRequest /\ req[th].op = op /\ req[th].stage = stage

\* The token this process took, else the one of its environment.
EffectiveToken(s) == IF held[s].token # NoToken THEN held[s].token ELSE env[s]

\* dispatch: the token is read here, once, and travels with the request.
Send(th, op, ttl) ==
  req' = [req EXCEPT ![th] =
    [op |-> op, ttl |-> ttl, token |-> EffectiveToken(Home[th]), stage |-> "sent", age |-> 0]]

-----------------------------------------------------------------------------
(* Processes and their tool calls *)

\* A process starts, perhaps with the token of a lease that was granted before, from
\* its environment or handed to it by set_lease_token.
Start(s) ==
  /\ life[s] = "unborn"
  /\ life' = [life EXCEPT ![s] = "alive"]
  /\ \E token \in 0..taken :
        \/ env' = [env EXCEPT ![s] = token] /\ UNCHANGED held
        \/ held' = [held EXCEPT ![s].token = token] /\ UNCHANGED env
  /\ UNCHANGED <<lease, taken, req, faults>>

Vanish(s) ==
  /\ life' = [life EXCEPT ![s] = "dead"]
  /\ held' = [held EXCEPT ![s] = Default]
  /\ env' = [env EXCEPT ![s] = NoToken]

\* It dies and what it held is forgotten; of its requests, some still reach Core.
Kill(s) ==
  /\ life[s] = "alive"
  /\ Vanish(s)
  /\ \E lost \in SUBSET {th \in Threads : Home[th] = s} :
        req' = [th \in Threads |-> IF th \in lost THEN NoRequest ELSE req[th]]
  /\ UNCHANGED <<lease, taken, faults>>

CallTool(th, op, ttls) ==
  /\ Idle(th) /\ th \notin Keepers
  /\ \E ttl \in ttls : Send(th, op, ttl)
  /\ UNCHANGED <<lease, taken, held, env, life, faults>>

CallTake(th)    == taken < MaxTakes /\ CallTool(th, "take", Ttls)
CallRenew(th)   == CallTool(th, "renew", Ttls \cup {NoTtl})
CallRelease(th) == CallTool(th, "release", {NoTtl})

-----------------------------------------------------------------------------
(* lease_keepalive: one wake-up a second, unless a renew is still in flight *)

MayBeDue(mine) == mine.ttl = NoTtl \/ mine.age >= Third(mine.ttl)
Overdue(mine)  == mine.ttl # NoTtl /\ mine.age > Third(mine.ttl)

\* A wake-up that finds no token, or nothing due, changes nothing.
WakeAndRenew(k) ==
  /\ k \in Keepers /\ Idle(k)
  /\ EffectiveToken(Home[k]) # NoToken
  /\ MayBeDue(held[Home[k]])
  /\ Send(k, "renew", NoTtl)
  /\ UNCHANGED <<lease, taken, held, env, life, faults>>

-----------------------------------------------------------------------------
(* Core: one lease, a new token per take, and no answer but to the live token *)

Answer(th, stage, token, ttl) ==
  req' = [req EXCEPT ![th].stage = stage, ![th].token = token, ![th].ttl = ttl]

Refuse(th) ==
  /\ Answer(th, "refused", NoToken, NoTtl)
  /\ UNCHANGED <<lease, taken, held, env, life, faults>>

ShowsLiveToken(th) == lease # NoLease /\ req[th].token = lease.token

\* A lease is granted when none is live, or in place of the caller's own.
CoreTake(th) ==
  /\ InFlight(th, "take", "sent")
  /\ \/ /\ lease = NoLease \/ ShowsLiveToken(th)
        /\ taken < MaxTakes
        /\ taken' = taken + 1
        /\ lease' = [token |-> taken + 1, ttl |-> req[th].ttl, age |-> 0, holder |-> Home[th]]
        /\ Answer(th, "granted", taken + 1, req[th].ttl)
        /\ UNCHANGED <<held, env, life, faults>>
     \/ /\ lease # NoLease \/ taken = MaxTakes
        /\ Refuse(th)

\* A renewal without a ttl is to the lease's own.
CoreRenew(th) ==
  /\ InFlight(th, "renew", "sent")
  /\ IF ShowsLiveToken(th)
     THEN LET ttl == IF req[th].ttl = NoTtl THEN lease.ttl ELSE req[th].ttl IN
          /\ lease' = [lease EXCEPT !.ttl = ttl, !.age = 0]
          /\ Answer(th, "granted", req[th].token, ttl)
          /\ UNCHANGED <<taken, held, env, life, faults>>
     ELSE Refuse(th)

CoreRelease(th) ==
  /\ InFlight(th, "release", "sent")
  /\ IF ShowsLiveToken(th)
     THEN /\ lease' = NoLease
          /\ Answer(th, "granted", req[th].token, NoTtl)
          /\ UNCHANGED <<taken, held, env, life, faults>>
     ELSE Refuse(th)

Expire ==
  /\ lease # NoLease /\ lease.age >= lease.ttl
  /\ lease' = NoLease
  /\ UNCHANGED <<taken, held, env, req, life, faults>>

Fault == faults < MaxFaults /\ faults' = faults + 1

\* Leases live in Core's memory only.
CoreRestart ==
  /\ Fault /\ lease # NoLease
  /\ lease' = NoLease
  /\ UNCHANGED <<taken, held, env, req, life>>

\* The request or, once Core has acted on it, the reply is lost: the caller fails.
Lose(th) ==
  /\ Fault /\ Alive(th) /\ req[th] # NoRequest /\ req[th].stage # "refused"
  /\ Answer(th, "refused", NoToken, NoTtl)
  /\ UNCHANGED <<lease, taken, held, env, life>>

-----------------------------------------------------------------------------
(* Applying an answer to HeldLease, whatever it has become meanwhile *)

\* A server goes on; a command-line process prints the answer and exits.
Receive(th, op, stage, newHeld) ==
  /\ Alive(th) /\ InFlight(th, op, stage)
  /\ req' = [req EXCEPT ![th] = NoRequest]
  /\ IF Serves(Home[th])
     THEN held' = [held EXCEPT ![Home[th]] = newHeld] /\ UNCHANGED <<env, life>>
     ELSE Vanish(Home[th])
  /\ UNCHANGED <<lease, taken, faults>>

TakeAnswered(th) ==
  LET answer == req[th] IN
  Receive(th, "take", "granted", [token |-> answer.token, ttl |-> answer.ttl, age |-> 0])

\* Not the code: a renewal's answer applied like a take's.
RenewSetsToken(th) ==
  LET answer == req[th] IN
  Receive(th, "renew", "granted", [token |-> answer.token, ttl |-> answer.ttl, age |-> 0])

\* Only ttl_s and renewed: the token stays what it is by now.
RenewAnswered(th) ==
  LET answer == req[th] IN
  Receive(th, "renew", "granted", [held[Home[th]] EXCEPT !.ttl = answer.ttl, !.age = 0])

ReleaseAnswered(th) ==
  Receive(th, "release", "granted", Default)

ToolRefused(th) ==
  /\ th \notin Keepers
  /\ \E op \in {"take", "renew", "release"} : Receive(th, op, "refused", held[Home[th]])

\* Not the code: a keepalive that ends at the first failed renewal.
KeepaliveStops(k) ==
  /\ k \in Keepers /\ Alive(k) /\ InFlight(k, "renew", "refused")
  /\ UNCHANGED vars

\* A failed renew is retried a third of the TTL later, of DefaultTtl if it is unknown.
KeepaliveRefused(k) ==
  LET mine == held[Home[k]]
      ttl  == IF mine.ttl = NoTtl THEN DefaultTtl ELSE mine.ttl
  IN  /\ k \in Keepers
      /\ Receive(k, "renew", "refused", [mine EXCEPT !.ttl = ttl, !.age = 0])

-----------------------------------------------------------------------------
Older(age, limit) == IF age < limit THEN age + 1 ELSE age

\* A second passes, once the wake-up in it has sent every renew that is overdue, no
\* request is older than Latency and no expired lease is left.
Tick ==
  /\ \A k \in Keepers :
       Idle(k) /\ EffectiveToken(Home[k]) # NoToken => ~Overdue(held[Home[k]])
  /\ \A th \in Threads :
       req[th] # NoRequest /\ (Alive(th) \/ req[th].stage = "sent") => req[th].age < Latency
  /\ lease # NoLease => lease.age <= lease.ttl
  /\ lease' = IF lease = NoLease THEN NoLease ELSE [lease EXCEPT !.age = @ + 1]
  /\ held' = [s \in Sessions |->
       IF held[s].ttl = NoTtl THEN held[s] ELSE [held[s] EXCEPT !.age = Older(@, MaxWait)]]
  /\ req' = [th \in Threads |->
       IF req[th] = NoRequest THEN NoRequest ELSE [req[th] EXCEPT !.age = Older(@, Latency)]]
  /\ UNCHANGED <<taken, env, life, faults>>

CoreStep(th)   == CoreTake(th) \/ CoreRenew(th) \/ CoreRelease(th)
ReplyStep(th)  ==
  TakeAnswered(th) \/ RenewAnswered(th) \/ ReleaseAnswered(th)
    \/ ToolRefused(th) \/ KeepaliveRefused(th)

Next ==
  \/ \E s \in Sessions : Start(s) \/ Kill(s)
  \/ \E th \in Threads :
        \/ CallTake(th) \/ CallRenew(th) \/ CallRelease(th)
        \/ WakeAndRenew(th) \/ CoreStep(th) \/ ReplyStep(th) \/ Lose(th)
  \/ Expire \/ CoreRestart \/ Tick

\* Time passes, whatever calls are made within a second; Core answers, and the runtime
\* polls what is ready.
Fairness ==
  /\ SF_vars(Tick) /\ WF_vars(Expire)
  /\ \A th \in Threads :
        WF_vars(CoreStep(th)) /\ WF_vars(ReplyStep(th)) /\ WF_vars(WakeAndRenew(th))

Spec == Init /\ [][Next]_vars
FairSpec == Spec /\ Fairness

-----------------------------------------------------------------------------
(* Properties *)

Kept(s) == life[s] = "alive" /\ Serves(s)

\* "This server ... renews it on a timer for as long as it runs": while the process
\* that took the live lease runs its keepalive and sends its token, the lease does
\* not come to the age at which Core may drop it, one lost request included.
KeepaliveHolds ==
  \A s \in Sessions :
    Kept(s) /\ lease # NoLease =>
      (lease.holder = s /\ held[s].token = lease.token => lease.age < lease.ttl)

Waiting(s) == \E th \in Threads : Home[th] = s /\ req[th] # NoRequest

\* "On success this client holds the token: every later request of this process
\* carries it": with nothing lost, a session at rest that Core granted the live lease
\* to sends that lease's token, whatever keepalive replies crossed its tool calls, as
\* long as those come one at a time (a thread each in the checked instance).
HolderSendsToken ==
  \A s \in Sessions :
    faults = 0 /\ life[s] = "alive" /\ ~Waiting(s) /\ lease # NoLease =>
      (lease.holder = s => held[s].token = lease.token)

\* "A failed renew is logged and retried a third of a TTL later, never fatal": as
\* long as a live process has a token to send, its renews never cease.
RenewsNeverCease ==
  \A k \in Keepers :
    Alive(k) /\ EffectiveToken(Home[k]) # NoToken ~>
      \/ ~Alive(k) \/ EffectiveToken(Home[k]) = NoToken
      \/ \E th \in Threads : Home[th] = Home[k] /\ req[th] # NoRequest /\ req[th].stage = "sent"
==============================================================================
