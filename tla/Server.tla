------------------------------- MODULE Server -------------------------------
(* The metronome's server (server.cpp) on its thread pool, with the handler*)
(* that changes a member without a mutex: register_validator adds one to   *)
(* active_validators (metronome.cpp).  Blocks come between registrations;  *)
(* what a block does to the metronome is in module Metronome.              *)
(* Each job is a server_loop with a REP socket of its own; it looks at the *)
(* server's flag between two requests only.  The DEALER's turns start over *)
(* whenever a loop connects, so a request may be dealt to any that has.    *)
(* A validator registers once, when it starts, and submits blocks later;   *)
(* one that is started again is another member of Validators.              *)
EXTENDS ThreadPool, Sequences

CONSTANTS Validators

VARIABLES stopping,           \* Server::interrupt
          loop,               \* per thread: where its server_loop is
          inbox,              \* per thread: the requests dealt to its socket
          active_validators,
          loaded,             \* per thread: the count register_validator has read
          asking, registered, \* validators that wait for a reply, that were registered
          overlapped          \* history: two threads were in register_validator

loopVars  == <<stopping, loop, inbox>>
countVars == <<active_validators, loaded, asking, registered, overlapped>>
vars == <<poolVars, loopVars, countVars>>

TypeOK ==
  /\ PoolTypeOK
  /\ stopping \in BOOLEAN
  /\ loop \in [Threads -> {"off", "top", "recv", "add"}]
  /\ inbox \in [Threads -> Seq(Validators)]
  /\ active_validators \in Nat
  /\ loaded \in [Threads -> Nat]
  /\ asking \subseteq Validators /\ registered \subseteq Validators
  /\ overlapped \in BOOLEAN

Init ==
  /\ PoolInit
  /\ stopping = FALSE
  /\ loop = [t \in Threads |-> "off"]
  /\ inbox = [t \in Threads |-> <<>>]
  /\ active_validators = 0
  /\ loaded = [t \in Threads |-> 0]
  /\ asking = {} /\ registered = {}
  /\ overlapped = FALSE

-----------------------------------------------------------------------------
At(t, place) == loop' = [loop EXCEPT ![t] = place]

(* The job starts: its socket connects.                                    *)
Start(t) ==
  /\ thread[t] = "run" /\ loop[t] = "off"
  /\ At(t, "top")
  /\ UNCHANGED <<poolVars, stopping, inbox, countVars>>

Continue(t) ==
  /\ loop[t] = "top"
  /\ ~stopping
  /\ At(t, "recv")
  /\ UNCHANGED <<poolVars, stopping, inbox, countVars>>

(* The loop ends and its socket with it.                                   *)
Return(t) ==
  /\ loop[t] = "top"
  /\ stopping
  /\ At(t, "off")
  /\ inbox' = [inbox EXCEPT ![t] = <<>>]
  /\ JobReturns(t)
  /\ UNCHANGED <<stopping, countVars>>

(* A request of a validator is dealt to a connected loop: the first is     *)
(* register_with_metronome, each later one a SUBMIT_BLOCK.  It waits for   *)
(* the reply.                                                              *)
Request(v) ==
  /\ v \notin asking
  /\ asking' = asking \cup {v}
  /\ \E t \in Threads : loop[t] # "off" /\ inbox' = [inbox EXCEPT ![t] = Append(@, v)]
  /\ UNCHANGED <<poolVars, stopping, loop, active_validators, loaded, registered, overlapped>>

\* active_validators += 1 is a read ...
RegisterRead(t) ==
  /\ loop[t] = "recv"
  /\ inbox[t] # <<>> /\ Head(inbox[t]) \notin registered
  /\ loaded' = [loaded EXCEPT ![t] = active_validators]
  /\ overlapped' = (overlapped \/ \E u \in Threads : loop[u] = "add")
  /\ At(t, "add")
  /\ UNCHANGED <<poolVars, stopping, inbox, active_validators, asking, registered>>

NextCount(t) == loaded[t] + 1

\* ... and a write; the reply ends the handler.
RegisterWrite(t) ==
  /\ loop[t] = "add"
  /\ active_validators' = NextCount(t)
  /\ inbox' = [inbox EXCEPT ![t] = Tail(@)]
  /\ asking' = asking \ {Head(inbox[t])}
  /\ registered' = registered \cup {Head(inbox[t])}
  /\ At(t, "top")
  /\ UNCHANGED <<poolVars, stopping, loaded, overlapped>>

\* Mutant: what the comments say of a block (metronome.cpp:174).
CountReset == 0

CountAfterBlock == active_validators

(* handle_block, whatever becomes of the block.                            *)
HandleBlock(t) ==
  /\ loop[t] = "recv"
  /\ inbox[t] # <<>> /\ Head(inbox[t]) \in registered
  /\ active_validators' = CountAfterBlock
  /\ inbox' = [inbox EXCEPT ![t] = Tail(@)]
  /\ asking' = asking \ {Head(inbox[t])}
  /\ At(t, "top")
  /\ UNCHANGED <<poolVars, stopping, loaded, registered, overlapped>>

(* ~Server sets its flag, then deletes the pool.                           *)
Shutdown ==
  /\ owner = "serve" /\ ~stopping
  /\ stopping' = TRUE
  /\ UNCHANGED <<poolVars, loop, inbox, countVars>>

OwnerStep ==
  /\ Owner
  /\ interrupt' # interrupt => stopping
  /\ UNCHANGED <<loopVars, countVars>>

Serving(t) ==
  \/ Start(t) \/ Continue(t) \/ Return(t)
  \/ RegisterRead(t) \/ RegisterWrite(t) \/ HandleBlock(t)

ThreadStep(t) ==
  \/ Serving(t)
  \/ /\ Looping(t)
     /\ UNCHANGED <<loopVars, countVars>>

Spurious ==
  /\ \E t \in Threads : SpuriousWakeUp(t)
  /\ UNCHANGED <<loopVars, countVars>>

Next ==
  \/ OwnerStep \/ Shutdown \/ Spurious
  \/ \E t \in Threads : ThreadStep(t)
  \/ \E v \in Validators : Request(v)

Spec == Init /\ [][Next]_vars

(* Threads run, and one that keeps finding queue_lock free gets it.  Nobody*)
(* has to shut the server down or to ask for anything.                     *)
Fairness ==
  /\ SF_vars(OwnerStep)
  /\ \A t \in Threads : SF_vars(ThreadStep(t))

FairSpec == Spec /\ Fairness

-----------------------------------------------------------------------------
(* Although loops never return, and a notification may find nobody waiting *)
(* or wake a thread that finds its job taken, every thread ends up with a  *)
(* loop of its own: no socket is missing, and no thread idles.             *)
EveryLoopRuns == <>(stopping \/ \A t \in Threads : thread[t] = "run" /\ loop[t] # "off")

(* What the monitor prints is the number of all validators registered since*)
(* the metronome started, through every block: never more, and no less     *)
(* unless two registrations were handled at once.  Of the reset at each    *)
(* block that metronome.cpp:174 and monitor.cpp:48 speak of there is none. *)
CountExactUnlessOverlapped ==
  /\ active_validators <= Cardinality(registered)
  /\ ~overlapped => active_validators = Cardinality(registered)
=============================================================================
