----------------------------- MODULE BugReport -----------------------------
(***************************************************************************)
(* The crash reporter (src/src/include/bugReport.hpp): its handler of the  *)
(* five signals a fault raises, run by any thread that faults, also while  *)
(* another is in it and from within itself.                                *)
(*                                                                         *)
(* Signals are external: a fault runs the handler on the stack of its      *)
(* thread with the signal blocked there (sa_flags is 0 and sa_mask empty), *)
(* ends the process if there is no handler or the signal is blocked, and   *)
(* what raise sends is delivered when the handler returns.  abort unblocks *)
(* its signal before it raises it.  A step lies between two accesses to    *)
(* what threads or handlers share.                                         *)
(***************************************************************************)
EXTENDS Integers, Sequences, FiniteSets, SequencesExt

CONSTANTS
  Tids,       \* the threads of the process
  Signals,    \* in the order in which BugReportRegister registers them
  Abort,      \* SIGABRT, that of abort
  Nothing,    \* no signal; no place to jump to
  Lines,      \* lines of the stack that are printed
  MaxFaults,  \* bound on the faults
  MaxCalls    \* bound on the calls of BugReportRegister

ASSUME SignalsAssumption == Signals \in Seq(Range(Signals)) /\ Nothing \notin Range(Signals)
ASSUME LinesAssumption == Lines \in Nat \ {0} /\ MaxFaults \in Nat /\ MaxCalls \in Nat
ASSUME TidsAssumption == IsFiniteSet(Tids) /\ Nothing \notin [thread : Tids, frame : 1 .. MaxFaults]

VARIABLES
  calls,      \* how many calls of BugReportRegister there have been
  registered, \* signals that the last of them has set; all, if it has returned
  handled,    \* the signals whose disposition is the handler
  frames,     \* the handler's frames on each thread's stack, and where they are
  pending,    \* the signals sent to each thread that it blocks
  s_first, BR_dumping_stack,
  BR_jmp_buf, \* thread and frame of the last sigsetjmp
  line,       \* of the loop, for each thread
  process,    \* "runs", "killed", or "undefined" after a jump to nowhere
  killer,     \* the signal that has killed it
  faults,     \* history: the signals of the faults, in order
  harsh,      \* history: what is unusual about the faults after the first
  failed,     \* history: a write of the stack has failed
  told        \* history: the callbacks have been called

sharedVars == <<s_first, BR_dumping_stack, BR_jmp_buf>>
history == <<faults, harsh, failed, told>>
setup == <<calls, registered>>
reportVars == <<setup, handled, frames, pending, sharedVars, line, process, killer, history>>

ReportInit ==
  /\ calls = 0 /\ registered = Len(Signals) /\ handled = {}
  /\ frames = [t \in Tids |-> <<>>] /\ pending = [t \in Tids |-> {}]
  /\ s_first = 0 /\ BR_dumping_stack = 0 /\ BR_jmp_buf = Nothing
  /\ line = [t \in Tids |-> 0]
  /\ process = "runs" /\ killer = Nothing
  /\ faults = <<>> /\ harsh = {} /\ failed = FALSE /\ told = FALSE

----------------------------------------------------------------------------
(* Signals                                                                 *)

Runs == process = "runs"

Place(t) == IF frames[t] = <<>> THEN "user code" ELSE Last(frames[t]).at
At(t, place) == Runs /\ Place(t) = place
Sig(t) == Last(frames[t]).sig
Goes(t, place) == frames' = [frames EXCEPT ![t] = Append(Front(@), [sig |-> Sig(t), at |-> place])]

Blocked(t) == {frames[t][i].sig : i \in DOMAIN frames[t]}

Killed(s) == process' = "killed" /\ killer' = s
Enters(t, s, below) == frames' = [frames EXCEPT ![t] = Append(below, [sig |-> s, at |-> "entered"])]

(* User code and callbacks may fault, and what writes a report: backtrace  *)
(* allocates memory, a line of the stack reads what the registers say.     *)
MayFault(t) == Place(t) \in {"user code", "header", "line", "info", "exit"}

Unusual(t, s) ==
  {"thread" : u \in {v \in Tids \ {t} : frames[v] # <<>>}}
  \cup (IF faults # <<>> /\ ~At(t, "line") THEN {"place"} ELSE {})
  \cup (IF s \in Blocked(t) THEN {"blocked"} ELSE {})
  \cup (IF s \notin handled THEN {"default"} ELSE {})

Lethal(t, s) == s \notin handled \/ (s \in Blocked(t) /\ s # Abort)

Fault(t, s) ==
  /\ Runs /\ MayFault(t) /\ Len(faults) < MaxFaults
  /\ faults' = Append(faults, s)
  /\ harsh' = harsh \cup Unusual(t, s)
  /\ IF Lethal(t, s)
       THEN Killed(s) /\ UNCHANGED frames
       ELSE Enters(t, s, frames[t]) /\ UNCHANGED <<process, killer>>
  /\ UNCHANGED <<setup, handled, pending, sharedVars, line, failed, told>>

----------------------------------------------------------------------------
(* BugReportRegister: the names and the callbacks are set before the first *)
(* signal is registered; a sigaction that fails leaves those before it.    *)
(* Any thread may call it again, as main and a library of it may, one at a *)
(* time, also when a handler has reset a signal to its default.            *)

BugReportRegister ==
  /\ Runs /\ registered = Len(Signals) /\ calls < MaxCalls
  /\ calls' = calls + 1 /\ registered' = 0
  /\ UNCHANGED <<handled, frames, pending, sharedVars, line, process, killer, history>>

SignalRegister ==
  /\ Runs /\ registered < Len(Signals)
  /\ registered' = registered + 1
  /\ handled' = handled \cup {Signals[registered']}
  /\ UNCHANGED <<calls, frames, pending, sharedVars, line, process, killer, history>>

SignalRegisterFails ==
  /\ Runs /\ registered < Len(Signals)
  /\ registered' = Len(Signals)
  /\ UNCHANGED <<calls, handled, frames, pending, sharedVars, line, process, killer, history>>

----------------------------------------------------------------------------
(* BR_SignalHandler.  Two threads may both read s_first as 0.              *)

ReadFirst(t) ==
  /\ At(t, "entered")
  /\ Goes(t, IF s_first = 0 THEN "first" ELSE "again")
  /\ UNCHANGED <<setup, handled, pending, sharedVars, line, process, killer, history>>

CountFirst(t) ==
  /\ At(t, "first")
  /\ s_first' = s_first + 1
  /\ Goes(t, "header")
  /\ UNCHANGED <<setup, handled, pending, BR_dumping_stack, BR_jmp_buf, line, process,
                 killer, history>>

(* BR_WriteErrorMsg up to the stack, or the first of its steps that fails. *)
WriteHeader(t) ==
  /\ At(t, "header")
  /\ Goes(t, "dump") \/ Goes(t, "info")
  /\ UNCHANGED <<setup, handled, pending, sharedVars, line, process, killer, history>>

(* BR_DumpStack1K; when a write fails, BR_dumping_stack stays set.         *)
DumpBegins(t) ==
  /\ At(t, "dump")
  /\ BR_dumping_stack' = 1
  /\ line' = [line EXCEPT ![t] = 0]
  /\ \/ Goes(t, "setjmp") /\ UNCHANGED failed
     \/ Goes(t, "info") /\ failed' = TRUE
  /\ UNCHANGED <<setup, handled, pending, s_first, BR_jmp_buf, process, killer, faults,
                 harsh, told>>

SetJmp(t) ==
  /\ At(t, "setjmp")
  /\ BR_jmp_buf' = [thread |-> t, frame |-> Len(frames[t])]
  /\ Goes(t, "line")
  /\ UNCHANGED <<setup, handled, pending, s_first, BR_dumping_stack, line, process,
                 killer, history>>

PrintLine(t) ==
  /\ At(t, "line")
  /\ line' = [line EXCEPT ![t] = @ + 1]
  /\ Goes(t, IF line'[t] < Lines THEN "setjmp" ELSE "dumped")
  /\ UNCHANGED <<setup, handled, pending, sharedVars, process, killer, history>>

PrintLineFails(t) ==
  /\ At(t, "line")
  /\ Goes(t, "info")
  /\ failed' = TRUE
  /\ UNCHANGED <<setup, handled, pending, sharedVars, line, process, killer, faults,
                 harsh, told>>

(* Mutant: BR_dumping_stack is not reset. *)
DumpEndsStays(t) ==
  /\ At(t, "dumped")
  /\ Goes(t, "info")
  /\ UNCHANGED <<setup, handled, pending, sharedVars, line, process, killer, history>>

DumpEnds(t) ==
  /\ At(t, "dumped")
  /\ BR_dumping_stack' = 0
  /\ Goes(t, "info")
  /\ UNCHANGED <<setup, handled, pending, s_first, BR_jmp_buf, line, process, killer,
                 history>>

(* The callbacks. *)
CallInfo(t) ==
  /\ At(t, "info")
  /\ Goes(t, "exit")
  /\ UNCHANGED <<setup, handled, pending, sharedVars, line, process, killer, history>>

CallExit(t) ==
  /\ At(t, "exit")
  /\ told' = TRUE
  /\ Goes(t, "reset")
  /\ UNCHANGED <<setup, handled, pending, sharedVars, line, process, killer, faults,
                 harsh, failed>>

(* Mutant: any handler that comes second ends the process. *)
AgainResets(t) ==
  /\ At(t, "again")
  /\ Goes(t, "reset")
  /\ UNCHANGED <<setup, handled, pending, sharedVars, line, process, killer, history>>

(* siglongjmp, if somebody prints the stack: back to the line, in the      *)
(* frame that prints, which leaves the loop.  Where no frame of this       *)
(* thread waits for it, the behaviour is undefined.                        *)
Lands(t) == BR_jmp_buf # Nothing /\ BR_jmp_buf.thread = t /\ BR_jmp_buf.frame < Len(frames[t])
            /\ frames[t][BR_jmp_buf.frame].at = "line"

Again(t) ==
  /\ At(t, "again")
  /\ \/ /\ BR_dumping_stack = 0
        /\ Goes(t, "reset")
        /\ UNCHANGED process
     \/ /\ BR_dumping_stack = 1 /\ Lands(t)
        /\ frames' = [frames EXCEPT ![t] =
             Append(SubSeq(@, 1, BR_jmp_buf.frame - 1), [@[BR_jmp_buf.frame] EXCEPT !.at = "dumped"])]
        /\ UNCHANGED process
     \/ /\ BR_dumping_stack = 1 /\ ~Lands(t)
        /\ process' = "undefined"
        /\ UNCHANGED frames
  /\ UNCHANGED <<setup, handled, pending, sharedVars, line, killer, history>>

(* Mutant: the disposition stays. *)
ResetForgets(t) ==
  /\ At(t, "reset")
  /\ Goes(t, "raise")
  /\ UNCHANGED <<setup, handled, pending, sharedVars, line, process, killer, history>>

(* signal(sig, SIG_DFL), *)
Reset(t) ==
  /\ At(t, "reset")
  /\ handled' = handled \ {Sig(t)}
  /\ Goes(t, "raise")
  /\ UNCHANGED <<setup, pending, sharedVars, line, process, killer, history>>

(* raise, of a signal that is blocked here, *)
Raise(t) ==
  /\ At(t, "raise")
  /\ pending' = [pending EXCEPT ![t] = @ \cup {Sig(t)}]
  /\ Goes(t, "return")
  /\ UNCHANGED <<setup, handled, sharedVars, line, process, killer, history>>

(* and the return, which delivers it.                                      *)
Return(t) ==
  /\ At(t, "return")
  /\ pending' = [pending EXCEPT ![t] = @ \ {Sig(t)}]
  /\ IF Sig(t) \in handled
       THEN Enters(t, Sig(t), Front(frames[t])) /\ UNCHANGED <<process, killer>>
       ELSE Killed(Sig(t)) /\ UNCHANGED frames
  /\ UNCHANGED <<setup, handled, sharedVars, line, history>>

----------------------------------------------------------------------------
Handler(t) ==
  \/ ReadFirst(t) \/ CountFirst(t) \/ WriteHeader(t)
  \/ DumpBegins(t) \/ SetJmp(t) \/ PrintLine(t) \/ PrintLineFails(t) \/ DumpEnds(t)
  \/ CallInfo(t) \/ CallExit(t) \/ Again(t) \/ Reset(t) \/ Raise(t) \/ Return(t)

ReportNext ==
  \/ BugReportRegister \/ SignalRegister \/ SignalRegisterFails
  \/ \E t \in Tids : Handler(t) \/ \E s \in Range(Signals) : Fault(t, s)

ReportSpec == ReportInit /\ [][ReportNext]_reportVars

(* A thread in the handler goes on, and callbacks return.  No fault has to *)
(* happen, and BugReportRegister need not be called, nor come to its end.  *)
ReportFairness == \A t \in Tids : WF_reportVars(Handler(t))

FairReportSpec == ReportSpec /\ ReportFairness

----------------------------------------------------------------------------
(* Every variable holds a value of its type. *)
ReportTypeOK ==
  /\ calls \in 0 .. MaxCalls /\ registered \in 0 .. Len(Signals)
  /\ handled \subseteq Range(Signals)
  /\ frames \in [Tids -> Seq([sig : Range(Signals),
                   at : {"entered", "first", "header", "dump", "setjmp", "line", "dumped",
                         "info", "exit", "again", "reset", "raise", "return"}])]
  /\ pending \in [Tids -> SUBSET Range(Signals)]
  /\ s_first \in 0 .. Cardinality(Tids) /\ BR_dumping_stack \in {0, 1}
  /\ BR_jmp_buf \in [thread : Tids, frame : 1 .. MaxFaults] \cup {Nothing}
  /\ line \in [Tids -> 0 .. Lines]
  /\ process \in {"runs", "killed", "undefined"} /\ killer \in Range(Signals) \cup {Nothing}
  /\ faults \in Seq(Range(Signals)) /\ harsh \subseteq {"thread", "place", "blocked", "default"}
  /\ failed \in BOOLEAN /\ told \in BOOLEAN

(* A fault while the stack is printed costs the rest of the stack, and no  *)
(* more: the callbacks are called, and the process is killed by the signal *)
(* of the first fault.  What the handler does not keep this promise for: a *)
(* fault of another thread, one elsewhere in the report or in a callback,  *)
(* one of the signal that is being handled, one that is not handled, and a *)
(* write of the report that fails.                                         *)
ReportSurvivesDump ==
  process = "killed" /\ harsh = {} /\ ~failed => told /\ killer = faults[1]

(* The handler jumps only where a frame of its own thread still waits for  *)
(* it, unless another thread faults, or a write of the stack has failed.   *)
JumpIsValid == process = "undefined" => "thread" \in harsh \/ failed

(* A fault ends the process, by a signal that a fault has raised, in       *)
(* whatever order threads fault and BugReportRegister is called again and  *)
(* sets the handler between the SIG_DFL and the raise of BR_SignalHandler. *)
(* The exception is a jump to nowhere, after which nothing is promised: of *)
(* a handler that finds another thread, or a failed write, in the dump.    *)
ProcessEnds ==
  (faults # <<>>) ~>
    \/ process = "killed" /\ killer \in Range(faults)
    \/ process = "undefined" /\ ("thread" \in harsh \/ failed)
============================================================================
