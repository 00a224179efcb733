---------------------------- MODULE StoredEvents ----------------------------
(***************************************************************************)
(* The store and the contents of its events: SyncStore keeps operations as *)
(* far as their legality tells them apart, EventCodec says what becomes of *)
(* everything else they carry.                                             *)
(***************************************************************************)
EXTENDS SyncStore, EventCodec

\* Whatever the operation of a stored row carried, a retry of it is found equal to the
\* row, and what is sent back is an event the device accepts and finds equal to its own
\* (codec.ts: "losslessly"; sync_operation_conflict and "conflicting content" else).
\* And the additions of a request meet the strict contract, whatever ranking fields the
\* scanner had put on the card ("strict event validation must never persist transient
\* ranking fields").
EventsComeRound ==
  /\ \A row \in events, event \in Altered : event["type"] # row.op.type
  /\ call.open /\ (\E i \in DOMAIN call.batch : call.batch[i].type = "holding.added")
       => Refused = {}

=============================================================================
