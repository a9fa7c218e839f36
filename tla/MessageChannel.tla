--------------------------- MODULE MessageChannel ---------------------------
(***************************************************************************)
(* What the reader of a connection promises to the code above it: whole    *)
(* messages, each once, in the order the server sent them, until the       *)
(* connection is closed.  Bytes, lengths and watermarks do not appear.     *)
(***************************************************************************)
EXTENDS Naturals, Sequences

CONSTANT Message

VARIABLES
  sent,       \* the messages the server has sent
  received,   \* the messages handed to the client
  open        \* the connection is usable

Init == sent = <<>> /\ received = <<>> /\ open = TRUE

SendMessage == /\ open
               /\ sent' \in Seq(Message)
               /\ Len(sent') = Len(sent) + 1
               /\ sent' = Append(sent, sent'[Len(sent')])
               /\ UNCHANGED <<received, open>>

ReceiveMessage == /\ open /\ Len(received) < Len(sent)
                  /\ received' = Append(received, sent[Len(received) + 1])
                  /\ UNCHANGED <<sent, open>>

Close == open /\ open' = FALSE /\ UNCHANGED <<sent, received>>

Next == SendMessage \/ ReceiveMessage \/ Close

Spec == Init /\ [][Next]_<<sent, received, open>>
=============================================================================
