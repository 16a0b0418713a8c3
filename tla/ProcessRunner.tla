----------------------------- MODULE ProcessRunner -----------------------------
(***************************************************************************)
(* One call of run_process (runner/runtime/process_runner.py): a command     *)
(* that reads its input and writes its output, the threads that feed the one *)
(* and read the other, and the loop that drains the bounded queue, watches    *)
(* the clock and ends the command.                                          *)
(*                                                                         *)
(* Output is counted, not spelled: the pipes and the queue are first-in      *)
(* first-out.  Time is an event: the deadline passes, or the command was     *)
(* idle too long, or the grace of _finish_reader is over.                    *)
(***************************************************************************)
EXTENDS Integers

CONSTANTS
  Writes,      \* chunks the command wants to write
  Reads,       \* chunks of input it wants to read
  PipeSize,    \* chunks the operating system buffers per pipe
  QueueSize    \* OUTPUT_QUEUE_CHUNKS

ASSUME PipeAssumption ==
  /\ Writes \in Nat /\ Reads \in Nat
  /\ PipeSize \in Nat \ {0} /\ QueueSize \in Nat \ {0}

VARIABLES
  limited,   \* whether a timeout or an idle timeout is set
  command,   \* "none", "running", "exited" or "killed"
  helper,    \* whether a descendant outside its process group holds stdout open
  written, stdout, held, queue, partial,  \* output: written, in the pipe, in the
                                          \* reader's hand, queued, collected
  toSend, stdin, readIn,                  \* input: unsent, in the pipe, read
  reader,    \* "reading" or "ended"
  call,      \* where the call is
  grace      \* whether _finish_reader may still wait

pipeVars == <<limited, command, helper, written, stdout, held, queue, partial, toSend, stdin, readIn,
          reader, call, grace>>
output == <<written, stdout, held, queue, partial>>
input == <<toSend, stdin, readIn>>

PipeInit ==
  /\ limited = FALSE /\ command = "none" /\ helper = FALSE
  /\ written = 0 /\ stdout = 0 /\ held = 0 /\ queue = 0 /\ partial = 0
  /\ toSend = Reads /\ stdin = 0 /\ readIn = 0
  /\ reader = "reading" /\ call = "idle" /\ grace = TRUE

--------------------------------------------------------------------------
(* Popen, and the threads; the caller may set a timeout or an idle timeout. *)
StartCommand ==
  /\ call = "idle"
  /\ limited' \in BOOLEAN
  /\ command' = "running" /\ call' = "loop"
  /\ UNCHANGED <<helper, output, input, reader, grace>>

(* The command and its descendants: not this program's code. *)
CommandWrites ==
  /\ command = "running" /\ written < Writes /\ stdout < PipeSize
  /\ written' = written + 1 /\ stdout' = stdout + 1
  /\ UNCHANGED <<limited, command, helper, held, queue, partial, input, reader, call, grace>>

CommandReads ==
  /\ command = "running" /\ stdin > 0
  /\ stdin' = stdin - 1 /\ readIn' = readIn + 1
  /\ UNCHANGED <<limited, command, helper, output, toSend, reader, call, grace>>

CommandExits ==
  /\ command = "running" /\ written = Writes /\ readIn = Reads
  /\ command' = "exited"
  /\ UNCHANGED <<limited, helper, output, input, reader, call, grace>>

HelperStarts ==
  /\ command = "running" /\ ~helper /\ helper' = TRUE
  /\ UNCHANGED <<limited, command, output, input, reader, call, grace>>

HelperExits ==
  /\ helper /\ helper' = FALSE
  /\ UNCHANGED <<limited, command, output, input, reader, call, grace>>

--------------------------------------------------------------------------
(* _send_input: in a thread of its own; it ends when the pipe breaks. *)
SendInput ==
  /\ toSend > 0 /\ command = "running" /\ stdin < PipeSize
  /\ toSend' = toSend - 1 /\ stdin' = stdin + 1
  /\ UNCHANGED <<limited, command, helper, output, readIn, reader, call, grace>>

(* _read_stdout: a chunk is taken from the pipe, then put into the queue,     *)
(* which blocks while it is full.                                            *)
ReadStdout ==
  /\ reader = "reading" /\ held = 0 /\ stdout > 0
  /\ held' = 1 /\ stdout' = stdout - 1
  /\ UNCHANGED <<limited, command, helper, written, queue, partial, input, reader, call, grace>>

PutChunk ==
  /\ held = 1 /\ queue < QueueSize
  /\ held' = 0 /\ queue' = queue + 1
  /\ UNCHANGED <<limited, command, helper, written, stdout, partial, input, reader, call, grace>>

EndOfFile ==
  /\ reader = "reading" /\ held = 0 /\ stdout = 0
  /\ command \in {"exited", "killed"} /\ ~helper
  /\ reader' = "ended"
  /\ UNCHANGED <<limited, command, helper, output, input, call, grace>>

--------------------------------------------------------------------------
(* _communicate_bounded: one turn of its loop. *)
Drain == queue' = 0 /\ partial' = partial + queue
Loop ==
  /\ call = "loop" /\ queue > 0
  /\ Drain
  /\ UNCHANGED <<limited, command, helper, written, stdout, held, input, reader, call, grace>>

SeeExit ==
  /\ call = "loop" /\ command # "running"
  /\ Drain
  /\ call' = "finish"
  /\ UNCHANGED <<limited, command, helper, written, stdout, held, input, reader, grace>>

(* terminate_process_tree: the command's process group is killed. *)
TimeOut ==
  /\ call = "loop" /\ limited /\ command = "running"
  /\ Drain
  /\ command' = "killed"
  /\ call' = "finish"
  /\ UNCHANGED <<limited, helper, written, stdout, held, input, reader, grace>>

(* _finish_reader: drain while the reader lives and the grace lasts, and once *)
(* more.                                                                     *)
FinishReader ==
  /\ call = "finish" /\ reader = "reading" /\ grace /\ queue > 0
  /\ Drain
  /\ UNCHANGED <<limited, command, helper, written, stdout, held, input, reader, call, grace>>

GraceEnds ==
  /\ call = "finish" /\ grace
  /\ grace' = FALSE
  /\ UNCHANGED <<limited, command, helper, output, input, reader, call>>

MutantReturn ==
  /\ call = "finish" /\ reader = "ended"
  /\ Drain
  /\ call' = "returned"
  /\ UNCHANGED <<limited, command, helper, written, stdout, held, input, reader, grace>>
Return ==
  /\ call = "finish" /\ (reader = "ended" \/ ~grace)
  /\ Drain
  /\ call' = "returned"
  /\ UNCHANGED <<limited, command, helper, written, stdout, held, input, reader, grace>>

Command == CommandWrites \/ CommandReads \/ CommandExits
Threads == SendInput \/ ReadStdout \/ PutChunk \/ EndOfFile
Caller == Loop \/ SeeExit \/ FinishReader \/ Return
PipeNext ==
  \/ StartCommand \/ Command \/ HelperStarts \/ HelperExits \/ Threads
  \/ Caller \/ TimeOut \/ GraceEnds

(* A command that can go on does, unless a limit is set: then it may hang. *)
PipeFairness ==
  /\ WF_pipeVars(SendInput) /\ WF_pipeVars(ReadStdout \/ PutChunk \/ EndOfFile)
  /\ WF_pipeVars(Caller) /\ WF_pipeVars(GraceEnds) /\ WF_pipeVars(TimeOut)
  /\ WF_pipeVars(~limited /\ CommandWrites) /\ WF_pipeVars(~limited /\ CommandReads)
  /\ WF_pipeVars(~limited /\ CommandExits)
PipeSpec == PipeInit /\ [][PipeNext]_pipeVars /\ PipeFairness

--------------------------------------------------------------------------
PipeTypeOK ==
  /\ limited \in BOOLEAN
  /\ command \in {"none", "running", "exited", "killed"} /\ helper \in BOOLEAN
  /\ written \in 0 .. Writes /\ stdout \in 0 .. PipeSize /\ held \in 0 .. 1
  /\ queue \in 0 .. QueueSize /\ partial \in 0 .. Writes
  /\ toSend \in 0 .. Reads /\ stdin \in 0 .. PipeSize /\ readIn \in 0 .. Reads
  /\ reader \in {"reading", "ended"} /\ call \in {"idle", "loop", "finish", "returned"}
  /\ grace \in BOOLEAN

(* The call returns: a command that can go on is never stuck on a full pipe   *)
(* or on unread input, and one that hangs is ended by the limit, even if a    *)
(* descendant holds the pipe open (process_runner.py:177-228).               *)
CallReturns == []PipeTypeOK /\ (call = "loop" ~> call = "returned")
=============================================================================
