--------------------------- MODULE Subscriptions ---------------------------
(***************************************************************************)
(* What a subscription promises: each subscriber follows a set of bundles, *)
(* as the calls that subscribe and unsubscribe it add up to, and an event  *)
(* is sent once to those, and only those, it is for.  How the service      *)
(* writes down the bundles, and when it answers a call, is left open.      *)
(***************************************************************************)
EXTENDS Sequences

CONSTANTS Subscribers, Bundles, Topics, Users, Values,
          SourceOf,    \* bundle a topic's notification is from
          ForUser      \* pairs of a user and a topic with events for it

VARIABLES bundles, user, connected, running, queue, inbox,
          pending      \* what a subscriber asked for and waits for, if any

vars == <<bundles, user, connected, running, queue, inbox, pending>>

(* To follow these bundles or, with take FALSE, to follow them no more. *)
Wish == [take : BOOLEAN, names : SUBSET Bundles]

Init ==
  /\ bundles = [s \in Subscribers |-> {}]
  /\ user \in [Subscribers -> Users]
  /\ connected = [s \in Subscribers |-> FALSE]
  /\ running = [s \in Subscribers |-> TRUE]
  /\ queue = <<>>
  /\ inbox = [s \in Subscribers |-> <<>>]
  /\ pending = [s \in Subscribers |-> {}]

Follows(s, event) ==
  /\ connected[s]
  /\ event.topic \in DOMAIN SourceOf =>
       /\ SourceOf[event.topic] \in bundles[s]
       /\ <<user[s], event.topic>> \in ForUser

(* Events enter the queue in the order in which they happen. *)
Announce(event) ==
  /\ queue' = Append(queue, event)
  /\ UNCHANGED <<bundles, user, connected, running, inbox, pending>>

(* The oldest event goes to whom it is for. *)
Deliver ==
  /\ queue # <<>>
  /\ queue' = Tail(queue)
  /\ inbox' = [s \in Subscribers |->
                 IF running[s] /\ Follows(s, Head(queue))
                 THEN Append(inbox[s], Head(queue)) ELSE inbox[s]]
  /\ UNCHANGED <<bundles, user, connected, running, pending>>

(* A subscriber asks and waits. *)
Ask(s, wish) ==
  /\ pending[s] = {}
  /\ pending' = [pending EXCEPT ![s] = {wish}]
  /\ UNCHANGED <<bundles, user, connected, running, queue, inbox>>

(* The answer to a wish; the subscriber may be sent one message about it.  *)
Answer(s, wish) ==
  /\ pending[s] = {wish}
  /\ pending' = [pending EXCEPT ![s] = {}]
  /\ inbox' = inbox \/ \E event \in [topic : Topics, value : Values] :
                         inbox' = [inbox EXCEPT ![s] = Append(@, event)]
  /\ UNCHANGED <<running, queue>>

(* The subscriber follows the bundles it names, or all if it names none.   *)
Subscribe(s, names) ==
  /\ Answer(s, [take |-> TRUE, names |-> names])
  /\ bundles' = [bundles EXCEPT ![s] = IF names = {} THEN Bundles ELSE names]
  /\ user' \in {[user EXCEPT ![s] = u] : u \in Users}
  /\ connected' = [connected EXCEPT ![s] = TRUE]

Disconnected(s) ==
  /\ connected' = [connected EXCEPT ![s] = FALSE]
  /\ user' \in {[user EXCEPT ![s] = u] : u \in Users}

(* The subscriber follows the named bundles no more; one that follows none *)
(* may be disconnected.                                                    *)
Unsubscribe(s, names) ==
  /\ Answer(s, [take |-> FALSE, names |-> names])
  /\ bundles' = [bundles EXCEPT ![s] = @ \ names]
  /\ \/ UNCHANGED <<connected, user>>
     \/ bundles'[s] = {} /\ Disconnected(s)

(* One that died follows nothing more, sooner or later. *)
Forget(s) ==
  /\ ~running[s]
  /\ bundles' = [bundles EXCEPT ![s] = {}]
  /\ Disconnected(s)
  /\ UNCHANGED <<running, queue, inbox, pending>>

(* A subscriber takes a message, or dies with those it did not take. *)
Take(s) ==
  /\ inbox[s] # <<>>
  /\ inbox' = [inbox EXCEPT ![s] = Tail(@)]
  /\ UNCHANGED <<bundles, user, connected, running, queue, pending>>

Die(s) ==
  /\ running' = [running EXCEPT ![s] = FALSE]
  /\ inbox' = [inbox EXCEPT ![s] = <<>>]
  /\ UNCHANGED <<bundles, user, connected, queue, pending>>

Next ==
  \/ \E event \in [topic : Topics, value : Values] : Announce(event)
  \/ Deliver
  \/ \E s \in Subscribers, names \in SUBSET Bundles :
       Subscribe(s, names) \/ Unsubscribe(s, names)
  \/ \E s \in Subscribers, wish \in Wish : Ask(s, wish)
  \/ \E s \in Subscribers : Take(s) \/ Die(s) \/ Forget(s)

Spec == Init /\ [][Next]_vars
=============================================================================
