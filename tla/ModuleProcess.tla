--------------------------- MODULE ModuleProcess ----------------------------
(***************************************************************************)
(* One call of a module's function: Kernel._run_in_child() forks a child,  *)
(* reads its stdout (a Thrift message) and its stderr (its log), each up   *)
(* to a limit, waits for its end, and takes it for a result or for a       *)
(* ModuleError (cjwkernel/kernel.py, errors.py).  The child is code that   *)
(* nobody has read: it writes, closes, exits and hangs as it likes.        *)
(*                                                                         *)
(* Time passes only when nothing else can happen: a child that does not    *)
(* hang takes its next step before the time limit, or its last one within  *)
(* DEAD_PROCESS_N_WAITS polls.                                             *)
(***************************************************************************)
EXTENDS Integers, FiniteSetsExt

CONSTANTS Lengths,   \* lengths of the message a child means to write
          Limit,     \* OUTPUT_BUFFER_MAX_BYTES and LOG_BUFFER_MAX_BYTES, by pipe
          PipeSize,  \* bytes that the operating system keeps for a reader
          NWaits,    \* DEAD_PROCESS_N_WAITS
          MaxExcess  \* bound: bytes beyond the limit

VARIABLES
  length, \* of the message
  sense,  \* can Thrift read what the child writes?
  child,  \* what it does next; its exit code at the end
  hung,   \* did it hang? (auxiliary)
  wrote,  \* bytes it has written to each pipe
  pipe,   \* [n, open] of each
  reader, \* the ChildReader of each
  call    \* _run_in_child()

vars == <<length, sense, child, hung, wrote, pipe, reader, call>>

Pipes == {"out", "log"}
Closing == [out |-> "close_out", log |-> "close_log"]

Child(does) == [does |-> does, code |-> 0]
Ended(code) == [does |-> "ended", code |-> code]

Blocked == child.does \in Pipes /\ pipe[child.does].n = PipeSize

-----------------------------------------------------------------------------
(* The child. *)

ChildDecides ==
  /\ child.does = "runs"
  /\ \E does \in Pipes \cup {Closing[p] : p \in Pipes} \cup {"exit", "hang"} :
       /\ does \in Pipes => pipe[does].open /\ wrote[does] < Limit[does] + MaxExcess
       /\ child' = Child(does) /\ hung' = (does = "hang")
  /\ UNCHANGED <<length, sense, wrote, pipe, reader, call>>

ChildWrites ==
  /\ child.does \in Pipes /\ ~Blocked /\ child' = Child("runs")
  /\ wrote' = [wrote EXCEPT ![child.does] = @ + 1]
  /\ pipe' = [pipe EXCEPT ![child.does].n = @ + 1]
  /\ UNCHANGED <<length, sense, hung, reader, call>>

ChildCloses(p) ==
  /\ child.does = Closing[p] /\ child' = Child("runs")
  /\ pipe' = [pipe EXCEPT ![p].open = FALSE]
  /\ UNCHANGED <<length, sense, hung, wrote, reader, call>>

ChildExits ==
  /\ child.does = "exit" /\ child' \in {Ended(0), Ended(1)}
  /\ pipe' = [p \in Pipes |-> [pipe[p] EXCEPT !.open = FALSE]]
  /\ UNCHANGED <<length, sense, hung, wrote, reader, call>>

(* module_process.kill(): SIGKILL, -9 *)
Kill == /\ child' = Ended(-9)
        /\ pipe' = [p \in Pipes |-> [pipe[p] EXCEPT !.open = FALSE]]

-----------------------------------------------------------------------------
(* ChildReader.ingest(): what was read, and the pipe left behind.          *)
Reader(got, overflowed, eof) == [got |-> got, overflowed |-> overflowed, eof |-> eof]

Ingested(p) ==
  LET total == reader[p].got + pipe[p].n
  IN  [reader |-> Reader(Min({total, Limit[p]}),
                         reader[p].overflowed \/ total > Limit[p], ~pipe[p].open),
       pipe |-> [pipe[p] EXCEPT !.n = 0]]

Registered(p) == call.pc = "select" /\ ~reader[p].eof

NothingToRead(p) == Ingested(p) = [reader |-> reader[p], pipe |-> pipe[p]]

Ingest(p) ==
  /\ Registered(p) /\ ~NothingToRead(p)
  /\ reader' = [reader EXCEPT ![p] = Ingested(p).reader]
  /\ pipe' = [pipe EXCEPT ![p] = Ingested(p).pipe]
  /\ UNCHANGED <<length, sense, child, hung, wrote, call>>

(* The time limit: the child is killed, and closes its pipes. *)
TimeOut ==
  /\ call.pc = "select" /\ ~call.timedOut /\ call' = [call EXCEPT !.timedOut = TRUE]
  /\ \A p \in Pipes : Registered(p) => NothingToRead(p)
  /\ child.does = "hang" \/ Blocked
  /\ Kill /\ UNCHANGED <<length, sense, hung, wrote, reader>>

Unregistered ==
  /\ call.pc = "select" /\ \A p \in Pipes : reader[p].eof
  /\ call' = [call EXCEPT !.pc = "wait"]
  /\ UNCHANGED <<length, sense, child, hung, wrote, pipe, reader>>

(* wait(WNOHANG), and sleep() *)
Poll ==
  /\ call.pc = "wait" /\ call.waits < NWaits /\ child.does # "ended"
  /\ call.waits = 0 \/ child.does = "hang"
  /\ call' = [call EXCEPT !.waits = @ + 1]
  /\ UNCHANGED <<length, sense, child, hung, wrote, pipe, reader>>

GiveUp ==
  /\ call.pc = "wait" /\ call.waits = NWaits /\ child.does = "hang"
  /\ call' = [call EXCEPT !.timedOut = TRUE]
  /\ Kill /\ UNCHANGED <<length, sense, hung, wrote, reader>>

(* Mutant: nobody looks whether the message ends the output. *)
MessageAtTheBeginning ==
  IF ~sense THEN {"exited", "raised"}
  ELSE IF reader["out"].got >= length THEN {"result"} ELSE {"exited"}

(* result.read(), and read(1) for what the child wrote too much.  "raised" *)
(* is not a ModuleError: "TODO handle other errors Thrift may throw".      *)
Message ==
  IF ~sense THEN {"exited", "raised"}
  ELSE IF reader["out"].got = length THEN {"result"} ELSE {"exited"}

Return ==
  /\ call.pc = "wait" /\ child.does = "ended"
  /\ \E outcome \in IF call.timedOut THEN {"timed_out"}
                    ELSE IF child.code # 0 THEN {"exited"} ELSE Message :
       call' = [call EXCEPT !.pc = outcome]
  /\ UNCHANGED <<length, sense, child, hung, wrote, pipe, reader>>

Init ==
  /\ length \in Lengths /\ sense \in BOOLEAN
  /\ child = Child("runs") /\ hung = FALSE /\ wrote = [p \in Pipes |-> 0]
  /\ pipe = [p \in Pipes |-> [n |-> 0, open |-> TRUE]]
  /\ reader = [p \in Pipes |-> Reader(0, FALSE, FALSE)]
  /\ call = [pc |-> "select", timedOut |-> FALSE, waits |-> 0]

Next ==
  \/ ChildDecides \/ ChildWrites \/ ChildExits
  \/ \E p \in Pipes : ChildCloses(p) \/ Ingest(p)
  \/ TimeOut \/ Unregistered \/ Poll \/ GiveUp \/ Return

Spec == Init /\ [][Next]_vars

-----------------------------------------------------------------------------
(* Properties.                                                             *)

(* A child that does not hang is not killed, however much it writes to     *)
(* either pipe in whatever order: "Read all overflowed data (and ignore    *)
(* it), so the program does not stall because a buffer is full".           *)
OnlyHungChildrenAreKilled == call.timedOut => hung

(* "The module's child ... is _meant_ to write a single message to its fd  *)
(* and then exit with code 0" (ModuleExitedError): a child that does, with *)
(* a message that fits and without a hang, is taken for a result, however  *)
(* much it logs; and nothing else is.  Unless the message fills the buffer *)
(* to the byte: `overflowed` is then set, and nobody reads it.             *)
ResultsAreWholeMessages ==
  LET full == length = Limit["out"] /\ wrote["out"] > length
      good == /\ child = Ended(0) /\ sense
              /\ wrote["out"] = length /\ length <= Limit["out"]
  IN  /\ call.pc = "result" => good \/ (child = Ended(0) /\ sense /\ full)
      /\ (good /\ call.pc \notin {"select", "wait"}) => call.pc = "result"
=============================================================================
