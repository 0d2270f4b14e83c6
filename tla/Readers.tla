------------------------------ MODULE Readers ------------------------------
(***************************************************************************)
(* The reader test: reader1 hands a text and what it counts in it over to  *)
(* reader2 through shared blocks, reader2 counts the words and hands them  *)
(* back, and readertest runs the two again and again on the same servers   *)
(* and compares what they print.  The memory is SharedMemory, in which     *)
(* every call takes effect at an instant between its beginning and its     *)
(* return; a program is a list of instructions.  The text of a round and   *)
(* the counts of its bytes and words are the number of the round.  A call  *)
(* that takes 20 seconds returns -4, and a program that looks at the       *)
(* result ends with status 1; where no result is looked at, a clear or an  *)
(* UNMAP, the time-out is left out (what it leaves behind is the matter of *)
(* DMTimeouts).                                                            *)
(***************************************************************************)
EXTENDS SharedMemory, Naturals, Sequences

CONSTANTS
  Counted,    \* what count_spaces may return: its result is not initialised
  MaxRounds   \* bound: how often readertest runs the programs

Reader1 == "reader1"
Reader2 == "reader2"

ASSUME ReadersAssumption ==
  /\ Clients = {Reader1, Reader2} /\ Zero = 0
  /\ Blocks = {"text", "size", "spaces", "words"}
  /\ Counted \subseteq Data /\ 0 .. MaxRounds \subseteq Data

\* "put" stores a value and writes the block, and ends the program if that fails;
\* "take" waits for a value, and ends the program if a call of it fails; "clear"
\* stores zero and writes the block, whatever comes of it.
Maps == << <<"MAP", "size">>, <<"MAP", "spaces">>, <<"MAP", "words">> >>
Unmaps == << <<"UNMAP", "text">>, <<"UNMAP", "size">>, <<"UNMAP", "spaces">>, <<"UNMAP", "words">> >>
Waiter == << <<"take", "size">>, <<"clear", "size">>, <<"MAP", "text">>, <<"put", "words">>,
             <<"take", "spaces">>, <<"clear", "spaces">> >>
\* Faulty variants: the size first; the block for the words is cleared first.
ProgramSwapped(r) ==
  Maps \o (IF r = Reader2 THEN Waiter ELSE
    << <<"MAP", "text">>, <<"put", "size">>, <<"put", "text">>, <<"put", "spaces">>,
       <<"take", "words">>, <<"clear", "words">> >>) \o Unmaps
ProgramClears(r) ==
  Maps \o (IF r = Reader2 THEN Waiter ELSE
    << <<"MAP", "text">>, <<"clear", "words">>, <<"put", "text">>, <<"put", "size">>, <<"put", "spaces">>,
       <<"take", "words">>, <<"clear", "words">> >>) \o Unmaps
Program(r) ==
  Maps \o (IF r = Reader2 THEN Waiter ELSE
    << <<"MAP", "text">>, <<"put", "text">>, <<"put", "size">>, <<"put", "spaces">>,
       <<"take", "words">>, <<"clear", "words">> >>) \o Unmaps

VARIABLES
  round,   \* how often the test has run
  pc,      \* the instruction each program is at
  stored,  \* it has stored the value of a put or clear, or waited for a take
  out,     \* what it prints
  status,  \* "running", "failing", or the exit status
  gaveUp   \* the programs a time-out has ended

progVars == <<round, pc, stored, out, status, gaveUp>>
allVars == <<vars, progVars>>

Nothing == [b \in {"size", "spaces", "words"} |-> 0]

RInit ==
  /\ Init /\ round = 1
  /\ pc = [r \in Clients |-> 1] /\ stored = [r \in Clients |-> FALSE]
  /\ out = [r \in Clients |-> Nothing]
  /\ status = [r \in Clients |-> "running"] /\ gaveUp = {}

\* Program r, running and not in a call, is at instruction i on block b.
At(r, i, b) ==
  /\ status[r] = "running" /\ op[r] = NoOp
  /\ pc[r] <= Len(Program(r)) /\ Program(r)[pc[r]] = <<i, b>>
Done(r) == stored' = [stored EXCEPT ![r] = TRUE]
Advance(r) ==
  pc' = [pc EXCEPT ![r] = @ + 1] /\ stored' = [stored EXCEPT ![r] = FALSE]

-----------------------------------------------------------------------------
CallMap(r, b) ==
  /\ At(r, "MAP", b) /\ Begin(r, "MAP", b) /\ UNCHANGED progVars
CallUnmap(r, b) ==
  /\ At(r, "UNMAP", b) /\ Begin(r, "UNMAP", b) /\ UNCHANGED progVars

\* The value for the block goes into memory: the text read from the file, its
\* size and spaces; the words of the text that is in reader2's buffer.
Put(r, b) ==
  /\ At(r, "put", b) /\ ~stored[r]
  /\ \E d \in CASE b = "spaces" -> Counted
                [] b = "words" -> {copy[r]["text"]}
                [] OTHER -> {round} :
       /\ Store(r, b, d)
       /\ out' = IF b = "text" THEN out ELSE [out EXCEPT ![r][b] = d]
  /\ Done(r) /\ UNCHANGED <<round, pc, status, gaveUp>>

\* while (*block == 0) { dm_block_wait; dm_block_update; }
TakeWait(r, b) ==
  /\ At(r, "take", b) /\ copy[r][b] = 0 /\ ~stored[r]
  /\ Begin(r, "WAIT", b) /\ UNCHANGED progVars
\* Faulty variant: no update after the wait.
TakeNoUpdate(r, b) ==
  /\ At(r, "take", b) /\ copy[r][b] = 0 /\ stored[r]
  /\ stored' = [stored EXCEPT ![r] = FALSE] /\ UNCHANGED <<round, pc, out, status, gaveUp, vars>>
TakeUpdate(r, b) ==
  /\ At(r, "take", b) /\ copy[r][b] = 0 /\ stored[r]
  /\ Begin(r, "UPDATE", b) /\ UNCHANGED progVars
Taken(r, b) ==
  /\ At(r, "take", b) /\ copy[r][b] # 0
  /\ out' = [out EXCEPT ![r][b] = copy[r][b]]
  /\ Advance(r) /\ UNCHANGED <<round, status, gaveUp, vars>>

\* Faulty variant: the block is not cleared.
ClearNothing(r, b) ==
  /\ At(r, "clear", b) /\ ~stored[r]
  /\ Done(r) /\ UNCHANGED <<round, pc, out, status, gaveUp, vars>>
Clear(r, b) ==
  /\ At(r, "clear", b) /\ ~stored[r] /\ Store(r, b, 0)
  /\ Done(r) /\ UNCHANGED <<round, pc, out, status, gaveUp>>
CallWrite(r, b) ==
  /\ At(r, "put", b) \/ At(r, "clear", b)
  /\ stored[r] /\ Begin(r, "WRITE", b) /\ UNCHANGED progVars

\* A call has returned; a refused dm_block_map or write ends the program, a
\* refused write after a take does not.
Back(r) ==
  LET name == op[r].name IN
  /\ Return(r)
  /\ CASE name = "WAIT" -> Done(r) /\ UNCHANGED pc
       [] name = "UPDATE" -> stored' = [stored EXCEPT ![r] = FALSE] /\ UNCHANGED pc
       [] OTHER -> Advance(r)
  /\ status' = [status EXCEPT ![r] =
       IF /\ op[r].state = "refused" /\ name \in {"MAP", "WRITE"}
          /\ Program(r)[pc[r]][1] # "clear"
       THEN "failing" ELSE @]
  /\ UNCHANGED <<round, out, gaveUp>>

\* Faulty variant: the program does not look whether the call has failed.
GiveUpIgnored(r) ==
  /\ status[r] = "running" /\ op[r] # NoOp
  /\ Program(r)[pc[r]][1] \in {"MAP", "put", "take"}
  /\ op' = [op EXCEPT ![r] = NoOp]
  /\ UNCHANGED <<mem, held, copy, fresh, left, progVars>>
\* The time-out of a call whose result is looked at: it returns -4 and the program
\* 1, whatever has become of the call; a write may still take effect.  (After a
\* failed MAP the other MAPs before the `if` are made, which nobody else notices.)
GiveUp(r) ==
  /\ status[r] = "running" /\ op[r] # NoOp
  /\ Program(r)[pc[r]][1] \in {"MAP", "put", "take"}
  /\ Quit(r)
  /\ status' = [status EXCEPT ![r] = "1"] /\ gaveUp' = gaveUp \cup {r}
  /\ UNCHANGED <<round, pc, stored, out>>

\* The program prints and ends, or ends without a result.
End(r) ==
  /\ op[r] = NoOp
  /\ status[r] = "failing" \/ (status[r] = "running" /\ pc[r] > Len(Program(r)))
  /\ Quit(r)
  /\ status' = [status EXCEPT ![r] = IF @ = "failing" THEN "1" ELSE "0"]
  /\ UNCHANGED <<round, pc, stored, out, gaveUp>>

Effect(r, b) ==
  /\ Map(r, b) \/ Unmap(r, b) \/ Update(r, b) \/ Write(r, b) \/ Wait(r, b)
  /\ UNCHANGED progVars

\* readertest starts the programs again after both have ended well.
Again ==
  /\ \A r \in Clients : status[r] = "0"
  /\ round < MaxRounds /\ round' = round + 1
  /\ pc' = [r \in Clients |-> 1] /\ out' = [r \in Clients |-> Nothing]
  /\ status' = [r \in Clients |-> "running"]
  /\ UNCHANGED <<stored, gaveUp, vars>>

Instruction(r, b) ==
  \/ CallMap(r, b) \/ CallUnmap(r, b) \/ CallWrite(r, b)
  \/ Put(r, b) \/ TakeWait(r, b) \/ TakeUpdate(r, b) \/ Taken(r, b) \/ Clear(r, b)
  \/ Effect(r, b)
ProgramStep(r) == Back(r) \/ End(r) \/ \E b \in Blocks : Instruction(r, b)

Late == \E w \in left : LateWrite(w) /\ UNCHANGED progVars

RNext == Again \/ Late \/ \E r \in Clients : ProgramStep(r) \/ GiveUp(r)

\* Both programs run on and every call that can take effect does.  Time-outs are
\* certain for a program that is left alone; while both run they may come or not.
Alone(r) == \A s \in Clients \ {r} : status[s] # "running"
RSpec == RInit /\ [][RNext]_allVars /\ WF_allVars(Again)
  /\ \A r \in Clients : WF_allVars(ProgramStep(r)) /\ WF_allVars(GiveUp(r) /\ Alone(r))
-----------------------------------------------------------------------------
Ended == \A r \in Clients : status[r] = "0"

\* readertest compares what the programs print.  Whatever the order of their
\* calls, it is the same, and it is about this round's text, not about what
\* the round before left in the blocks (reader1.cpp, reader2.cpp).
OutputsAgree ==
  Ended => /\ out[Reader1] = out[Reader2]
           /\ out[Reader1].size = round /\ out[Reader1].words = round

\* Every write finds the copy fresh, those whose result is ignored too: when
\* both programs have ended the blocks they wait on are zero for the next round.
CleanSlate == Ended => \A b \in Blocks \ {"text"} : mem[b] = 0

\* A program ends with status 1 only by a time-out of its own: none of its writes
\* is refused because of the other, and none after the other has given up.
NoneFails == \A r \in Clients : status[r] \in {"failing", "1"} => r \in gaveUp

\* Each round ends with the end of both programs, and without a time-out as long
\* as both run: neither waits for a write that has been, and not both for each
\* other (readertest).
RoundsEnd == []<>(\A r \in Clients : status[r] \in {"0", "1"})

\* reader1 has told reader2 that there are no spaces: zero is what a block nobody
\* has written holds, so reader2 waits until its time-out, and the test fails
\* (reader1.cpp, whose counter is not initialised).
ZeroSpacesFail ==
  status[Reader1] = "0" /\ out[Reader1].spaces = 0 ~> status[Reader2] = "1"
=============================================================================
