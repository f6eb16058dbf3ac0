-------------------------------- MODULE AbsIo -------------------------------
(***************************************************************************)
(* What a read from the terminal promises: a line that is edited, of at    *)
(* most the length that was asked for, and whose length is returned.       *)
(***************************************************************************)
EXTENDS Sequences, Integers

CONSTANTS Character, \* the characters a line can have before its newline
          MaxCount   \* the longest line that can be asked for

VARIABLES line,      \* the line as edited so far, or as it was returned
          room,      \* its greatest length
          open       \* TRUE between the call and its return

Init == line = <<>> /\ room = 0 /\ open = FALSE

Start == /\ ~open
         /\ open' = TRUE /\ line' = <<>> /\ room' \in 0 .. MaxCount

(* Only a line with room takes a character.                                *)
Type(c) == /\ open /\ Len(line) < room
           /\ line' = Append(line, c)
           /\ UNCHANGED <<room, open>>

Erase == /\ open /\ line # <<>>
         /\ line' = SubSeq(line, 1, Len(line) - 1)
         /\ UNCHANGED <<room, open>>

(* The line is complete, with the newline when there is room for it.       *)
Enter == /\ open /\ Len(line) < room
         /\ line' = Append(line, "NL") /\ open' = FALSE
         /\ UNCHANGED room

(* The line ends as it is: end of input, or one character too many.        *)
Stop == /\ open /\ open' = FALSE
        /\ UNCHANGED <<line, room>>

Next == \/ Start \/ Erase \/ Enter \/ Stop
        \/ \E c \in Character : Type(c)

Spec == Init /\ [][Next]_<<line, room, open>>
=============================================================================
