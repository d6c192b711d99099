-------------------------------- MODULE Link --------------------------------
(***************************************************************************)
(* The TCP connection between the two programs, as both see it: a listen   *)
(* queue the receiver's connect enters, the connection the receiver holds, *)
(* the client the sender serves, and what is in flight towards the         *)
(* receiver.  The receiver's hello travels with its connect, and the       *)
(* sender finds it when it accepts.  Each operator says what one call of   *)
(* one end does to the variables they share.                               *)
(***************************************************************************)
EXTENDS Naturals, Sequences

CONSTANTS
  Decodable,   (* what the receiver's hello says its machine decodes         *)
  Backlog,     (* connections the listen queue holds                         *)
  MaxInbox,    (* bound: messages in flight, for TLC                         *)
  Trouble      (* bound: failures of either machine or the link, for TLC     *)

ASSUME LinkAssumption ==
  Backlog \in Nat \ {0} /\ MaxInbox \in Nat \ {0} /\ Trouble \in Nat

VARIABLES
  up,          (* the sender is listening                                    *)
  queue,       (* not yet accepted: "mine", the receiver's; "gone", one it   *)
               (* has closed since; "silent", one that will never say hello  *)
  mine,        (* the receiver's connection: "none", "pending", "accepted",  *)
               (* or "dropped" by the other end                              *)
  served,      (* the sender's client: "none"; "live"; "stale", closed by    *)
               (* the receiver; "dead", and the sender knows                 *)
  inbox,       (* what the sender sent on the receiver's connection          *)
  trouble

linkVars == <<up, queue, mine, served, inbox>>

LinkInit ==
  /\ up = TRUE /\ queue = << >> /\ mine = "none" /\ served = "none"
  /\ inbox = << >> /\ trouble = 0

Disturb == trouble < Trouble /\ trouble' = trouble + 1
-----------------------------------------------------------------------------
(* connect and the hello after it *)
Connect ==
  /\ up
  /\ Len(queue) < Backlog
  /\ queue' = Append(queue, "mine")
  /\ mine' = "pending" /\ inbox' = << >>
  /\ UNCHANGED <<up, served>>

(* The receiver closes its end: a connection still queued stays there. *)
ReceiverCloses ==
  /\ queue' = [i \in DOMAIN queue |->
                 IF queue[i] = "mine" THEN "gone" ELSE queue[i]]
  /\ mine' = "none" /\ inbox' = << >>
  /\ served' = IF served = "live" THEN "stale" ELSE served
  /\ UNCHANGED up

Accept ==
  /\ queue # << >> /\ Head(queue) # "silent"
  /\ queue' = Tail(queue)
  /\ IF Head(queue) = "mine"
     THEN mine' = "accepted" /\ served' = "live"
     ELSE UNCHANGED mine /\ served' = "stale"
  /\ UNCHANGED <<up, inbox>>

(* A connection that says nothing is closed after five seconds. *)
AcceptSilent ==
  /\ queue # << >> /\ Head(queue) = "silent"
  /\ queue' = Tail(queue)
  /\ UNCHANGED <<up, mine, served, inbox>>

(* Faulty: a client turned away is forgotten with its socket open. *)
SenderForgets ==
  /\ served' = "none"
  /\ UNCHANGED <<up, queue, mine, inbox>>

SenderCloses ==
  /\ mine' = IF served = "live" THEN "dropped" ELSE mine
  /\ served' = "none"
  /\ UNCHANGED <<up, queue, inbox>>

(* send to whoever is served; to a closed peer it goes nowhere *)
Transmit(m) ==
  /\ inbox' = IF served = "live" THEN Append(inbox, m) ELSE inbox
  /\ UNCHANGED <<up, queue, mine, served>>

Room == served = "live" => Len(inbox) < MaxInbox

(* Keepalive, a send timeout, the control thread's recv: the sender learns *)
(* that its client has gone.                                               *)
NoticeGone ==
  /\ served = "stale"
  /\ served' = "dead"
  /\ UNCHANGED <<up, queue, mine, inbox>>

LinkBreaks ==
  /\ served = "live"
  /\ served' = "dead" /\ mine' = "dropped"
  /\ \E lost \in BOOLEAN : inbox' = IF lost THEN << >> ELSE inbox
  /\ UNCHANGED <<up, queue>>

SenderDies ==
  /\ up
  /\ up' = FALSE /\ queue' = << >> /\ served' = "none"
  /\ mine' = IF mine \in {"pending", "accepted"} THEN "dropped" ELSE mine
  /\ UNCHANGED inbox

Stranger ==
  /\ up
  /\ Len(queue) < Backlog
  /\ queue' = Append(queue, "silent")
  /\ UNCHANGED <<up, mine, served, inbox>>
=============================================================================
