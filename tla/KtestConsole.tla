---------------------------- MODULE KtestConsole ----------------------------
(***************************************************************************)
(* boot_and_test and Console (crates/cargo-kbuild/src/ktest.rs): the       *)
(* driver thread scripts a guest over qemu's serial console, a reader      *)
(* thread copies qemu's output to the log and, through a channel, to the   *)
(* driver's buffer, and the verdict combines the script's result with a    *)
(* search of the log.                                                      *)
(*                                                                         *)
(* Console output is a set of tokens, what the code's patterns tell apart: *)
(* the login prompt, the password prompt, the echo of command k as it is   *)
(* typed, the marker line command k prints when it succeeded, "panic:",    *)
(* and bytes that are not UTF-8.  Buffer and log only grow and the code    *)
(* only asks whether they contain a pattern, so order and number are left  *)
(* out.  The guest, qemu and a --qemu wrapper are external.                *)
(***************************************************************************)
EXTENDS Integers, Sequences, SequencesExt

CONSTANTS
  Healthy,    \* does the guest carry out every command, without panic or hang?
  Generous,   \* the deadlines no answer ever misses (of "login", "prompt",
              \* "await" and "wait"); the others may elapse at any time
  Wrapper,    \* is --qemu a script that runs qemu as a child of its own?
  Utf8Only,   \* is everything on the console UTF-8?
  LossyLog,   \* may a write to the log fail?
  ReadFails   \* may the reader's read of qemu's stdout fail?

ASSUME ConsoleAssumption ==
  /\ Healthy \in BOOLEAN /\ Wrapper \in BOOLEAN
  /\ Utf8Only \in BOOLEAN /\ LossyLog \in BOOLEAN /\ ReadFails \in BOOLEAN
  /\ Generous \subseteq {"login", "prompt", "await", "wait"}

\* The script's commands: echo, mount, kldload, kldstat, kldunload.
NSteps == 5
Steps  == 1 .. NSteps
MountCd == 2
Kldload == 3
Kldunload == 5

LoginPrompt    == <<"login:", 0>>
PasswordPrompt == <<"Password:", 0>>
PanicText      == <<"panic:", 0>>
BadBytes       == <<"bytes", 0>>
Echo(k)        == <<"echo", k>>
Marker(k)      == <<"mark", k>>
Token == {LoginPrompt, PasswordPrompt, PanicText, BadBytes}
           \cup {Echo(k) : k \in Steps} \cup {Marker(k) : k \in Steps}

Root       == <<"root", 0>>
EmptyLine  == <<"", 0>>
Command(k) == <<"command", k>>
Poweroff   == <<"poweroff", 0>>
Line == {Root, EmptyLine, Poweroff} \cup {Command(k) : k \in Steps}

-----------------------------------------------------------------------------
VARIABLES
  \* the driver thread
  pc,         \* where boot_and_test is
  step,       \* the command it is at
  result,     \* test_result of the scripted part
  verdict,    \* what boot_and_test returned; "none" while it runs
  buf,        \* Console.buf
  \* the reader thread
  reader,     \* "none", "read", "forward" or "end"
  chunk,      \* what it read last and has not forwarded
  chan,       \* the mpsc channel: chunks forwarded and not received
  log,        \* console.log
  \* qemu and the guest
  child,      \* the process ktest spawned: "none", "runs" or "exited"
  guest,      \* what the VM is doing
  job,        \* the command its shell executes, 0 if none
  input,      \* lines sent and not yet read by the guest
  pipe,       \* qemu's output, not yet read by the reader
  \* history
  completed,  \* commands the guest carried out
  printed,    \* tokens the guest ever printed
  swallowed   \* lines another program than the one they were meant for read

driver  == <<pc, step, result, verdict, buf>>
channel == <<reader, chunk, chan, log>>
machine == <<child, guest, job, input, pipe, completed, printed, swallowed>>
vars    == <<driver, channel, machine>>

Expecting == {"login", "prompt", "await"}
PC == {"spawn", "console", "root", "empty", "send", "poweroff", "wait", "join",
       "check", "done"} \cup Expecting
Gone == {"off", "dead"}
Up   == {"boot", "login", "auth", "passwd", "shell", "exec", "halting"}

TypeOK ==
  /\ pc \in PC /\ step \in Steps
  /\ result \in {"ok", "err"} /\ verdict \in {"none", "pass", "fail"}
  /\ buf \subseteq Token
  /\ reader \in {"none", "read", "forward", "end"}
  /\ chunk \subseteq Token /\ chan \in Seq(SUBSET Token) /\ log \subseteq {PanicText, BadBytes}
  /\ child \in {"none", "runs", "exited"}
  /\ guest \in {"none", "panicked", "hung"} \cup Up \cup Gone
  /\ job \in 0 .. NSteps
  /\ input \in Seq(Line) /\ pipe \subseteq Token
  /\ completed \subseteq Steps /\ printed \subseteq Token /\ swallowed \subseteq Line

Init ==
  /\ pc = "spawn" /\ step = 1 /\ result = "ok" /\ verdict = "none" /\ buf = {}
  /\ reader = "none" /\ chunk = {} /\ chan = << >> /\ log = {}
  /\ child = "none" /\ guest = "none" /\ job = 0
  /\ input = << >> /\ pipe = {}
  /\ completed = {} /\ printed = {} /\ swallowed = {}

-----------------------------------------------------------------------------
(* The driver: spawning.                                                   *)

Verdict(v) == pc' = "done" /\ verdict' = v

SpawnQemu ==
  /\ pc = "spawn" /\ pc' = "console"
  /\ child' = "runs" /\ guest' = "boot"
  /\ UNCHANGED <<step, result, verdict, buf, channel, job, input, pipe,
                 completed, printed, swallowed>>

\* qemu_command or the spawn failed: no firmware, no such program.
SpawnQemuFails ==
  /\ pc = "spawn" /\ Verdict("fail")
  /\ UNCHANGED <<step, result, buf, channel, machine>>

SpawnConsole ==
  /\ pc = "console" /\ pc' = "login"
  /\ reader' = "read"
  /\ UNCHANGED <<step, result, verdict, buf, chunk, chan, log, machine>>

\* console.log cannot be created: an early return, and nobody kills qemu.
SpawnConsoleFails ==
  /\ pc = "console" /\ Verdict("fail")
  /\ UNCHANGED <<step, result, buf, channel, machine>>

-----------------------------------------------------------------------------
(* The driver: Console::expect, expect_marker and send.                    *)

\* Mutant: a plain substring search, which the echoed command satisfies too.
SeenAnywhere ==
  \/ pc = "login" /\ LoginPrompt \in buf
  \/ pc = "prompt" /\ PasswordPrompt \in buf
  \/ pc = "await" /\ {Echo(step), Marker(step)} \cap buf # {}
\* The buffer contains what the driver waits for.
Seen ==
  \/ pc = "login" /\ LoginPrompt \in buf
  \/ pc = "prompt" /\ PasswordPrompt \in buf
  \/ pc = "await" /\ Marker(step) \in buf

Receive ==
  /\ pc \in Expecting /\ ~Seen /\ chan # << >>
  /\ buf' = buf \cup Head(chan)
  /\ chan' = Tail(chan)
  /\ UNCHANGED <<pc, step, result, verdict, reader, chunk, log, machine>>

\* Mutant: there is always a next command.
MatchOnePast ==
  /\ pc \in Expecting /\ Seen
  /\ \/ pc = "login"  /\ pc' = "root"  /\ UNCHANGED step
     \/ pc = "prompt" /\ pc' = "empty" /\ UNCHANGED step
     \/ pc = "await" /\ pc' = "send" /\ step' = step + 1
  /\ UNCHANGED <<result, verdict, buf, channel, machine>>
Match ==
  /\ pc \in Expecting /\ Seen
  /\ \/ pc = "login"  /\ pc' = "root"  /\ UNCHANGED step
     \/ pc = "prompt" /\ pc' = "empty" /\ UNCHANGED step
     \/ pc = "await" /\ step < NSteps /\ pc' = "send" /\ step' = step + 1
     \/ pc = "await" /\ step = NSteps /\ pc' = "poweroff" /\ UNCHANGED step
  /\ UNCHANGED <<result, verdict, buf, channel, machine>>

\* The script is over with an error; the cleanup that follows is not.
Abandon == pc' = "wait" /\ result' = "err"

\* Mutant: the error leaves boot_and_test at once.
NotSeenReturns ==
  /\ \/ pc = "prompt" /\ pc' = "send" /\ UNCHANGED verdict
     \/ pc \in {"login", "await"} /\ Verdict("fail")
  /\ UNCHANGED <<step, result, buf, channel, machine>>
\* Mutant: a shell that does not answer the first echo is not an error either.
NotSeenGoesOn ==
  /\ \/ pc = "prompt" /\ pc' = "send" /\ UNCHANGED <<step, result>>
     \/ pc = "await" /\ step = 1 /\ pc' = "send" /\ step' = 2 /\ UNCHANGED result
     \/ pc \in {"login", "await"} /\ Abandon /\ UNCHANGED step
  /\ UNCHANGED <<verdict, buf, channel, machine>>
\* Mutant: no password prompt is an error too.
NotSeenIsFatal ==
  /\ pc \in Expecting /\ Abandon
  /\ UNCHANGED <<step, verdict, buf, channel, machine>>
\* An expect returned an error.  No password prompt is not an error.
NotSeen ==
  /\ \/ pc = "prompt" /\ pc' = "send" /\ UNCHANGED result
     \/ pc \in {"login", "await"} /\ Abandon
  /\ UNCHANGED <<step, verdict, buf, channel, machine>>

\* No answer is on its way: nothing runs in the guest, nothing is in flight, or
\* nobody reads it.
Silent ==
  /\ \/ guest \in {"none", "panicked", "hung"} \cup Gone
     \/ guest \in {"login", "passwd", "shell"} /\ input = << >>
  /\ pipe = {} \/ reader = "end"
  /\ chunk = {} /\ chan = << >>

Timeout ==
  /\ pc \in Expecting /\ ~Seen
  /\ pc \in Generous => Silent
  /\ NotSeen

\* The reader is gone and the channel drained.
Disconnected ==
  /\ pc \in Expecting /\ ~Seen
  /\ reader = "end" /\ chan = << >>
  /\ NotSeen

VmGone == guest \in Gone /\ child = "exited"

Sends(at, line, next) ==
  /\ pc = at
  /\ \/ ~VmGone /\ input' = Append(input, line) /\ pc' = next /\ UNCHANGED result
     \/ VmGone /\ Abandon /\ UNCHANGED input
  /\ UNCHANGED <<step, verdict, buf, channel, child, guest, job, pipe,
                 completed, printed, swallowed>>

SendRoot == Sends("root", Root, "prompt")
SendEmpty == Sends("empty", EmptyLine, "send")
SendCommand == Sends("send", Command(step), "await")
SendPoweroff == Sends("poweroff", Poweroff, "wait")

-----------------------------------------------------------------------------
(* The driver: the end of the VM and the verdict.                          *)

\* wait_with_timeout sees the child's exit.
Exited ==
  /\ pc = "wait" /\ child = "exited" /\ pc' = "join"
  /\ UNCHANGED <<step, result, verdict, buf, channel, machine>>

\* Mutant: a guest that does not power off is left alone.
LeaveRunning ==
  /\ pc = "wait" /\ child = "runs"
  /\ "wait" \in Generous => guest # "halting" /\ Silent
  /\ pc' = "join"
  /\ UNCHANGED <<step, result, verdict, buf, channel, machine>>
\* The deadline passed: kill and reap the child.  Without a wrapper that is qemu.
Kill ==
  /\ pc = "wait" /\ child = "runs"
  /\ "wait" \in Generous => guest # "halting" /\ Silent
  /\ pc' = "join"
  /\ child' = "exited"
  /\ guest' = IF Wrapper THEN guest ELSE "dead"
  /\ UNCHANGED <<step, result, verdict, buf, channel, job, input, pipe,
                 completed, printed, swallowed>>

\* Mutant: the log is searched without waiting for the reader to finish it.
NoJoin ==
  /\ pc = "join" /\ pc' = "check"
  /\ UNCHANGED <<step, result, verdict, buf, channel, machine>>
Join ==
  /\ pc = "join" /\ reader = "end" /\ pc' = "check"
  /\ UNCHANGED <<step, result, verdict, buf, channel, machine>>

\* read_to_string fails on a log that is not UTF-8; the default is the empty text.
LogText == IF BadBytes \in log THEN {} ELSE log

\* Mutant: only the part of the log the driver received is searched.
CheckBuffer ==
  /\ pc = "check"
  /\ Verdict(IF PanicText \in buf \/ result = "err" THEN "fail" ELSE "pass")
  /\ UNCHANGED <<step, result, buf, channel, machine>>
Check ==
  /\ pc = "check"
  /\ Verdict(IF PanicText \in LogText \/ result = "err" THEN "fail" ELSE "pass")
  /\ UNCHANGED <<step, result, buf, channel, machine>>

-----------------------------------------------------------------------------
(* The reader thread.                                                      *)

\* What the check of the log can tell apart; the rest of it is left out.
Searched == {PanicText, BadBytes}

ReaderRead ==
  /\ reader = "read" /\ pipe # {}
  /\ chunk' = pipe /\ pipe' = {}
  /\ reader' = "forward"
  /\ \/ log' = log \cup (pipe \cap Searched)
     \/ LossyLog /\ UNCHANGED log
  /\ UNCHANGED <<driver, chan, child, guest, job, input, completed, printed, swallowed>>

ReaderForward ==
  /\ reader = "forward" /\ reader' = "read"
  /\ chan' = Append(chan, chunk) /\ chunk' = {}
  /\ UNCHANGED <<driver, log, machine>>

\* End of file: nobody holds the write end of qemu's stdout any more.
ReaderEnds ==
  /\ reader = "read" /\ pipe = {} /\ VmGone
  /\ reader' = "end"
  /\ UNCHANGED <<driver, chunk, chan, log, machine>>

\* The read fails, whatever the VM is doing: nobody reads what it prints from now on.
ReaderFails ==
  /\ ReadFails
  /\ reader = "read" /\ reader' = "end"
  /\ UNCHANGED <<driver, chunk, chan, log, machine>>

-----------------------------------------------------------------------------
(* qemu and the guest (external).                                          *)

Prints(t) == pipe' = pipe \cup {t} /\ printed' = printed \cup {t}

\* With no wrapper the child is qemu, and ends with the VM.
Ends(state) == guest' = state /\ child' = IF Wrapper THEN child ELSE "exited"

GuestBoots ==
  /\ guest = "boot" /\ guest' = "login" /\ Prints(LoginPrompt)
  /\ UNCHANGED <<driver, channel, child, job, input, completed, swallowed>>

Reads(line) == input # << >> /\ Head(input) = line /\ input' = Tail(input)

GuestTakesName ==
  /\ guest = "login" /\ guest' = "auth" /\ Reads(Root)
  /\ UNCHANGED <<driver, channel, child, job, pipe, completed, printed, swallowed>>

GuestAsksPassword ==
  /\ guest = "auth" /\ guest' = "passwd" /\ Prints(PasswordPrompt)
  /\ UNCHANGED <<driver, channel, child, job, input, completed, swallowed>>

GuestLogsIn ==
  /\ \/ guest = "auth" /\ UNCHANGED input
     \/ guest = "passwd" /\ Reads(EmptyLine)
  /\ guest' = "shell"
  /\ UNCHANGED <<driver, channel, child, job, pipe, completed, printed, swallowed>>

\* Anything but the empty line is a wrong password, and a guest that is not
\* healthy refuses that one too: it asks for a name again.
GuestRefuses ==
  /\ guest = "passwd" /\ input # << >>
  /\ ~Healthy \/ Head(input) # EmptyLine
  /\ guest' = "login" /\ Prints(LoginPrompt)
  /\ swallowed' = swallowed \cup ({Head(input)} \ {EmptyLine})
  /\ input' = Tail(input)
  /\ UNCHANGED <<driver, channel, child, job, completed>>

\* What is typed at the login prompt is echoed there, and is a name whatever it is.
Echoed(line) == {Echo(k) : k \in {j \in Steps : Command(j) = line}}

GuestTakesOther ==
  /\ guest = "login" /\ input # << >> /\ Head(input) # Root
  /\ guest' = "passwd"
  /\ pipe' = pipe \cup Echoed(Head(input)) \cup {PasswordPrompt}
  /\ printed' = printed \cup Echoed(Head(input)) \cup {PasswordPrompt}
  /\ swallowed' = swallowed \cup {Head(input)}
  /\ input' = Tail(input)
  /\ UNCHANGED <<driver, channel, child, job, completed>>

GuestStarts(k) ==
  /\ guest = "shell" /\ guest' = "exec" /\ Reads(Command(k)) /\ job' = k
  /\ Prints(Echo(k))
  /\ UNCHANGED <<driver, channel, child, completed, swallowed>>

\* Whether command k can succeed: kldload needs the CD mounted, kldstat and
\* kldunload the module loaded.
Possible(k) ==
  /\ k = Kldload => MountCd \in completed
  /\ k > Kldload => Kldload \in completed /\ Kldunload \notin completed

GuestSucceeds ==
  /\ guest = "exec" /\ guest' = "shell" /\ Possible(job)
  /\ Prints(Marker(job)) /\ completed' = completed \cup {job} /\ job' = 0
  /\ UNCHANGED <<driver, channel, child, input, swallowed>>

\* The command fails and && does not reach the echo.
GuestFails ==
  /\ guest = "exec" /\ guest' = "shell" /\ job > 1
  /\ ~Healthy \/ ~Possible(job)
  /\ job' = 0
  /\ UNCHANGED <<driver, channel, child, input, pipe, completed, printed, swallowed>>

GuestPanics ==
  /\ ~Healthy /\ guest \in Up /\ guest' = "panicked" /\ Prints(PanicText)
  /\ UNCHANGED <<driver, channel, child, job, input, completed, swallowed>>

\* A guest that stops for good, one whose qemu is stuck included (its standard
\* error is a pipe nobody reads).
GuestHangs ==
  /\ ~Healthy /\ guest \in Up /\ guest' = "hung"
  /\ UNCHANGED <<driver, channel, child, job, input, pipe, completed, printed, swallowed>>

GuestGarbles ==
  /\ ~Utf8Only /\ guest \in Up /\ BadBytes \notin printed /\ Prints(BadBytes)
  /\ UNCHANGED <<driver, channel, child, guest, job, input, completed, swallowed>>

GuestHalts ==
  /\ guest = "shell" /\ guest' = "halting" /\ Reads(Poweroff)
  /\ UNCHANGED <<driver, channel, child, job, pipe, completed, printed, swallowed>>

\* Powered off; or reset by a panic, which -no-reboot turns into an exit.
VmExits ==
  /\ \/ guest = "halting" /\ Ends("off")
     \/ guest = "panicked" /\ Ends("dead")
  /\ UNCHANGED <<driver, channel, job, input, pipe, completed, printed, swallowed>>

WrapperExits ==
  /\ Wrapper /\ child = "runs" /\ guest \in Gone /\ child' = "exited"
  /\ UNCHANGED <<driver, channel, guest, job, input, pipe, completed, printed, swallowed>>

-----------------------------------------------------------------------------
Driver ==
  \/ SpawnQemu \/ SpawnQemuFails \/ SpawnConsole \/ SpawnConsoleFails
  \/ Receive \/ Match \/ Timeout \/ Disconnected
  \/ SendRoot \/ SendEmpty \/ SendCommand \/ SendPoweroff
  \/ Exited \/ Kill \/ Join \/ Check

Reader == ReaderRead \/ ReaderForward \/ ReaderEnds

GuestProgress ==
  \/ GuestBoots \/ GuestTakesName \/ GuestAsksPassword \/ GuestLogsIn
  \/ GuestRefuses \/ GuestTakesOther \/ (\E k \in Steps : GuestStarts(k))
  \/ GuestSucceeds \/ GuestFails \/ GuestHalts \/ VmExits \/ WrapperExits

Machine == GuestProgress \/ GuestPanics \/ GuestHangs \/ GuestGarbles

Next == Driver \/ Reader \/ ReaderFails \/ Machine

Spec == Init /\ [][Next]_vars

\* The two threads are scheduled, every deadline arrives, and a wrapper whose
\* VM is gone exits.  Nothing is assumed of the guest.
FairSpec == Spec /\ WF_vars(Driver) /\ WF_vars(Reader) /\ WF_vars(WrapperExits)

\* The guest makes progress too, whenever it can.
FairGuestSpec == FairSpec /\ WF_vars(GuestProgress)

-----------------------------------------------------------------------------
(* Properties.                                                             *)

\* A pass means the guest really booted to a shell, mounted the CD, loaded the
\* module, saw it and unloaded it (ktest.rs:15-19): no echo, stale output or
\* timeout is ever taken for a marker.
PassSound == verdict = "pass" => completed = Steps

\* "fails loudly ... if `panic:` ever appears in the stream" (ktest.rs:17-19):
\* a panic the driver never received, one after the last marker or during the
\* shutdown included, on a console that is UTF-8 and all of which gets to the log.
PassNoPanic == verdict = "pass" => PanicText \notin printed

\* "a stuck/panicked guest gets force-killed" (ktest.rs:438-439): whatever the
\* guest does, no VM outlives a test that got as far as a console.  Before it,
\* when console.log cannot be created, one does (SpawnConsoleFails).
NoVmLeft == verdict # "none" /\ reader # "none" => VmGone

\* A command is sent only once the guest carried out all those before it, so
\* nothing is loaded from a CD that is not mounted or unloaded unseen.
CommandsInOrder ==
  \A i \in 1 .. Len(input), k \in Steps :
    input[i] = Command(k) => 1 .. k - 1 \subseteq completed

\* The password prompt may come after the eight seconds of ktest.rs:408, and then
\* reads the line the driver types next.  However late it comes, and whatever the
\* guest says of the password, that is the harmless first echo at most, and never
\* a mount, a kldload or a poweroff.
OnlyEchoSwallowed == swallowed \subseteq {Command(1)}

\* "... so we don't hang forever" (ktest.rs:438-439): ktest ends with a verdict,
\* whatever the guest does, if the child it kills is qemu and no wrapper.
Terminates == <>(verdict # "none")

\* The reader's read failed while there was, or might be, more to read.
Deaf == reader = "end" /\ (~VmGone \/ pipe # {})

\* A guest that carries out every command passes, once its console is open, if it
\* can be heard and no deadline cuts it short: with a password prompt or without one.
HealthyPasses == pc = "login" ~> (verdict = "pass" \/ Deaf)

\* The contract KtestContract states of every verdict.
Contract == INSTANCE KtestContract
              WITH NSteps <- NSteps, panicked <- (PanicText \in printed)
ImplementsContract == Contract!Spec
=============================================================================
