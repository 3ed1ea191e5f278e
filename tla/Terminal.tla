------------------------------ MODULE Terminal ------------------------------
(***************************************************************************)
(* What the console promises to whoever sits at the terminal, one step per *)
(* key: the row shows the prompt and the line as edited so far, and Enter  *)
(* shows the answer to exactly that line.  Buffers, C strings and single   *)
(* characters of output are not part of it.                                *)
(***************************************************************************)
EXTENDS Naturals, Sequences, SequencesExt

CONSTANTS
  Printable,                \* the keys that make up lines
  MAX_LINE,                 \* how many of them fit
  HELP, HELLO, PID, EXIT,   \* the four commands
  PROMPT, READY, HELP_TEXT, GREETING, PID_TEXT, BYE, UNKNOWN   \* texts

VARIABLES
  row,      \* the row of the cursor, up to the cursor
  above,    \* the rows that the last Enter has left above it
  open      \* whether the console runs

termVars == <<row, above, open>>

Init == row = <<>> /\ above = <<>> /\ open = TRUE

Start ==
  /\ open /\ row = <<>>
  /\ row' = <<PROMPT>>
  /\ above' = << <<>>, <<READY>> >>
  /\ UNCHANGED open

Type ==
  /\ open /\ Len(row) \in 1..MAX_LINE
  /\ \E c \in Printable : row' = Append(row, c)
  /\ UNCHANGED <<above, open>>

Erase ==
  /\ open /\ Len(row) > 1
  /\ row' = Front(row)
  /\ UNCHANGED <<above, open>>

Reply(line) ==
  CASE line = <<>>  -> <<>>
    [] line = HELP  -> [i \in 1..4 |-> <<HELP_TEXT[i]>>]
    [] line = HELLO -> << <<GREETING>> >>
    [] line = PID   -> << <<PID_TEXT>> >>
    [] line = EXIT  -> << <<BYE>> >>
    [] OTHER        -> << <<UNKNOWN>> \o line >>

Enter ==
  /\ open /\ row # <<>>
  /\ LET line == Tail(row) IN
       /\ above' = <<row>> \o Reply(line)
       /\ open' = (line # EXIT)
       /\ row' = IF open' THEN <<PROMPT>> ELSE <<>>

Spec == Init /\ [][Start \/ Type \/ Erase \/ Enter]_termVars
=============================================================================
