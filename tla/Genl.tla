--------------------------------- MODULE Genl ---------------------------------
(* genl_multicast.c: a generic netlink family and a timer that multicasts to *)
(* it every two seconds.  Messages are counted, not spelled out.             *)
(* Operators named Slip... are wrong variants of the operator they precede;  *)
(* they document which mistake each property is able to notice.              *)
EXTENDS Naturals

CONSTANT MaxLost     \* bound: how many buffers can be lost before the model stops counting

\* What is assumed of it.
GenlAssumption == MaxLost \in Nat

VARIABLES
  genl_pc,     \* insmod and rmmod: "out", "register", "failing", "start", "live", "stop", "forget"
  family,      \* the family is known to generic netlink
  error,       \* hello_init's error
  timer,       \* "idle", "pending", and the callback's steps "new", "put", "multicast", "end"
  rearmed,     \* mod_timer has put the timer back while its callback still runs
  skb_lost     \* buffers nobody frees any more

vars == <<genl_pc, family, error, timer, rearmed, skb_lost>>

\* The family does not name its groups, so none is registered with it.
n_mcgrps == 0

Running == timer \notin {"idle", "pending"}

Init ==
  /\ genl_pc = "out" /\ family = FALSE /\ error = FALSE
  /\ timer = "idle" /\ rearmed = FALSE /\ skb_lost = 0

\* init_socket: genl_register_family.
RegisterFamily ==
  /\ genl_pc = "register"
  /\ \E ok \in BOOLEAN : family' = ok /\ error' = ~ ok
  /\ genl_pc' = "failing"
  /\ UNCHANGED <<timer, rearmed, skb_lost>>

Insmod ==
  /\ genl_pc = "out"
  /\ genl_pc' = "register"
  /\ UNCHANGED <<family, error, timer, rearmed, skb_lost>>

\* The label error_out comes right behind the registration: it is reached on
\* success too, the family goes, and err, which is 0 then, is returned.
ErrorOut ==
  /\ genl_pc = "failing"
  /\ family' = FALSE
  /\ genl_pc' = IF error THEN "out" ELSE "start"
  /\ UNCHANGED <<error, timer, rearmed, skb_lost>>

InitializeTimer ==
  /\ genl_pc = "start"
  /\ timer' = "pending" /\ genl_pc' = "live"
  /\ UNCHANGED <<family, error, rearmed, skb_lost>>

\* send_multicast, on the timer's interrupt.
Fire ==
  /\ timer = "pending"
  /\ timer' = "new" /\ rearmed' = FALSE
  /\ UNCHANGED <<genl_pc, family, error, skb_lost>>

\* genlmsg_new: a buffer, or none and the round is over.
NewMessage ==
  /\ timer = "new"
  /\ timer' \in {"put", "end"}
  /\ UNCHANGED <<genl_pc, family, error, rearmed, skb_lost>>

\* genlmsg_put and the two attributes: what fails frees the buffer itself.
PutMessage ==
  /\ timer = "put"
  /\ timer' \in {"multicast", "end"}
  /\ UNCHANGED <<genl_pc, family, error, rearmed, skb_lost>>

\* genlmsg_multicast_allns refuses a group the family does not have before it
\* takes the buffer over, and the caller does not free it.
Multicast ==
  /\ timer = "multicast"
  /\ skb_lost' = IF n_mcgrps = 0 /\ skb_lost < MaxLost THEN skb_lost + 1 ELSE skb_lost
  /\ timer' = "end"
  /\ UNCHANGED <<genl_pc, family, error, rearmed>>

\* mod_timer: whatever happened the timer starts again, and then the callback returns.
Rearm ==
  /\ timer = "end" /\ ~ rearmed
  /\ rearmed' = TRUE
  /\ UNCHANGED <<genl_pc, family, error, timer, skb_lost>>

CallbackReturns ==
  /\ timer = "end" /\ rearmed
  /\ timer' = "pending" /\ rearmed' = FALSE
  /\ UNCHANGED <<genl_pc, family, error, skb_lost>>

Rmmod ==
  /\ genl_pc = "live"
  /\ genl_pc' = "stop"
  /\ UNCHANGED <<family, error, timer, rearmed, skb_lost>>

SlipWaitsForIdle ==
  /\ genl_pc = "stop" /\ timer = "idle"
  /\ genl_pc' = "forget"
  /\ UNCHANGED <<family, error, timer, rearmed, skb_lost>>

\* hello_exit: del_timer_sync waits until the callback is not running and then
\* takes the timer out, rearmed or not.
SlipDelTimer ==
  /\ genl_pc = "stop"
  /\ timer' = IF Running THEN timer ELSE "idle"
  /\ genl_pc' = "forget"
  /\ UNCHANGED <<family, error, rearmed, skb_lost>>

DelTimerSync ==
  /\ genl_pc = "stop" /\ ~ Running
  /\ timer' = "idle" /\ genl_pc' = "forget"
  /\ UNCHANGED <<family, error, rearmed, skb_lost>>

\* For a family that is not registered this answers -ENOENT.
UnregisterFamily ==
  /\ genl_pc = "forget"
  /\ family' = FALSE /\ genl_pc' = "out"
  /\ UNCHANGED <<error, timer, rearmed, skb_lost>>

Callback == NewMessage \/ PutMessage \/ Multicast \/ Rearm \/ CallbackReturns

Next ==
  \/ Insmod \/ RegisterFamily \/ ErrorOut \/ InitializeTimer
  \/ Fire \/ Callback
  \/ Rmmod \/ DelTimerSync \/ UnregisterFamily

\* insmod, rmmod and the callback run on; and del_timer_sync, which spins, sees
\* one of the gaps of two seconds in which the callback does not run.
Fairness ==
  /\ WF_vars(RegisterFamily \/ ErrorOut \/ InitializeTimer \/ UnregisterFamily)
  /\ WF_vars(Callback)
  /\ SF_vars(DelTimerSync)

Spec == Init /\ [][Next]_vars
FairSpec == Spec /\ Fairness

---------------------------------------------------------------------------
TypeOK ==
  /\ genl_pc \in {"out", "register", "failing", "start", "live", "stop", "forget"}
  /\ {family, error, rearmed} \subseteq BOOLEAN
  /\ timer \in {"idle", "pending", "new", "put", "multicast", "end"}
  /\ skb_lost \in 0 .. MaxLost

\* Once the module is out, and as soon as hello_exit has passed
\* del_timer_sync, its timer is neither pending nor inside the callback, whose
\* code is about to be freed (genl_multicast.c:209).
TimerGone == genl_pc \in {"out", "forget"} => timer = "idle"

\* rmmod comes to its end, although the timer starts itself again in every round.
UnloadCompletes == genl_pc = "stop" ~> genl_pc = "out"

\* While the module is in, messages for the family reach it: "This callback
\* runs whenever the socket receives messages" (genl_multicast.c:12).
LiveMeansRegistered == genl_pc = "live" => family
=============================================================================
