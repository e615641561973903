------------------------- MODULE KtestConsoleProofs -------------------------
(***************************************************************************)
(* Theorems about KtestConsole: whatever the guest does and whenever the   *)
(* deadlines pass, for each setting of the constants that a theorem does   *)
(* not restrict.                                                           *)
(***************************************************************************)
EXTENDS KtestConsole, SequenceTheorems, TLAPS

\* Tokens and lines are distinct: what the code's patterns tell apart.
LEMMA Tokens ==
  /\ {LoginPrompt, PasswordPrompt, PanicText, BadBytes} \subseteq Token
  /\ \A k \in Steps : Marker(k) \in Token /\ Echo(k) \in Token
  /\ \A k \in Steps :
       /\ Marker(k) \notin {LoginPrompt, PasswordPrompt, PanicText, BadBytes}
       /\ Echo(k) \notin {PanicText, BadBytes}
       /\ \A j \in Steps : Marker(k) # Echo(j) /\ (Marker(k) = Marker(j) => k = j)
  /\ PanicText \notin {LoginPrompt, PasswordPrompt, BadBytes}
  /\ BadBytes \notin {LoginPrompt, PasswordPrompt}
  BY DEF Token, LoginPrompt, PasswordPrompt, PanicText, BadBytes, Marker, Echo, Steps

LEMMA Lines ==
  /\ {Root, EmptyLine, Poweroff} \subseteq Line
  /\ \A k \in Steps : /\ Command(k) \in Line
                      /\ Command(k) \notin {Root, EmptyLine, Poweroff}
                      /\ \A j \in Steps : Command(k) = Command(j) => k = j
  BY DEF Line, Root, EmptyLine, Poweroff, Command, Steps

\* The tokens and lines that the password prompt and its answer can be taken for.
LEMMA PromptTokens ==
  /\ PasswordPrompt \in Token
  /\ PasswordPrompt \notin {LoginPrompt, PanicText, BadBytes}
  /\ \A k \in Steps : PasswordPrompt # Echo(k) /\ PasswordPrompt # Marker(k)
  /\ EmptyLine # Root
  BY DEF Token, LoginPrompt, PasswordPrompt, PanicText, BadBytes, Echo, Marker, Steps,
         EmptyLine, Root

\* What the login prompt echoes is an echo.
LEMMA EchoedTokens ==
  ASSUME NEW line
  PROVE  /\ Echoed(line) \subseteq Token
         /\ Echoed(line) \cap ({LoginPrompt, PasswordPrompt, PanicText, BadBytes}
                                \cup {Marker(k) : k \in Steps}) = {}
  BY Tokens, PromptTokens DEF Echoed, Echo, LoginPrompt, PasswordPrompt, PanicText, BadBytes

\* What Head, Tail and Append do to the elements of a sequence.
LEMMA HeadTail ==
  ASSUME NEW S, NEW s \in Seq(S), s # << >>
  PROVE  /\ Head(s) \in S /\ Tail(s) \in Seq(S)
         /\ \A i \in 1 .. Len(Tail(s)) : i + 1 \in 1 .. Len(s) /\ Tail(s)[i] = s[i + 1]
         /\ 1 \in 1 .. Len(s) /\ Head(s) = s[1]
  OBVIOUS

LEMMA Appended ==
  ASSUME NEW S, NEW s \in Seq(S), NEW e \in S
  PROVE  /\ Append(s, e) \in Seq(S)
         /\ \A i \in 1 .. Len(Append(s, e)) :
              \/ i \in 1 .. Len(s) /\ Append(s, e)[i] = s[i]
              \/ Append(s, e)[i] = e
  OBVIOUS

-----------------------------------------------------------------------------
(* Types.                                                                  *)

\* A shell that executes has a command to execute.
Types == TypeOK /\ (guest = "exec" => job \in Steps)

LEMMA SendsTypes ==
  ASSUME Types, NEW at, NEW line \in Line, NEW next \in PC, Sends(at, line, next)
  PROVE  Types'
  <1>1. Append(input, line) \in Seq(Line)
    BY Appended DEF Types, TypeOK
  <1>2. CASE ~VmGone
    BY <1>1, <1>2 DEF Sends, Types, TypeOK, driver, channel, machine
  <1>3. CASE VmGone
    BY <1>3 DEF Sends, Abandon, Types, TypeOK, PC, driver, channel, machine
  <1> QED
    BY <1>2, <1>3

LEMMA TypesInductive == Types /\ [Next]_vars => Types'
  <1> SUFFICES ASSUME Types, [Next]_vars PROVE Types'
    OBVIOUS
  <1> USE DEF Types, TypeOK, driver, channel, machine, PC, Expecting, Up, Gone
  <1>1. CASE SpawnQemu
    BY <1>1 DEF SpawnQemu
  <1>2. CASE SpawnQemuFails
    BY <1>2 DEF SpawnQemuFails, Verdict
  <1>3. CASE SpawnConsole
    BY <1>3 DEF SpawnConsole
  <1>4. CASE SpawnConsoleFails
    BY <1>4 DEF SpawnConsoleFails, Verdict
  <1>5. CASE Receive
    BY <1>5, HeadTail DEF Receive
  <1>6. CASE Match
    BY <1>6 DEF Match, Steps, NSteps
  <1>7. CASE Timeout
    BY <1>7 DEF Timeout, NotSeen, Abandon
  <1>8. CASE Disconnected
    BY <1>8 DEF Disconnected, NotSeen, Abandon
  <1>9. CASE SendRoot
    BY <1>9, Lines, SendsTypes DEF SendRoot
  <1>10. CASE SendEmpty
    BY <1>10, Lines, SendsTypes DEF SendEmpty
  <1>11. CASE SendCommand
    BY <1>11, Lines, SendsTypes DEF SendCommand
  <1>12. CASE SendPoweroff
    BY <1>12, Lines, SendsTypes DEF SendPoweroff
  <1>13. CASE Exited
    BY <1>13 DEF Exited
  <1>14. CASE Kill
    BY <1>14 DEF Kill
  <1>15. CASE Join
    BY <1>15 DEF Join
  <1>16. CASE Check
    BY <1>16 DEF Check, Verdict
  <1>17. CASE ReaderRead
    BY <1>17, Tokens DEF ReaderRead, Searched
  <1>18. CASE ReaderForward
    BY <1>18, Appended DEF ReaderForward
  <1>19. CASE ReaderEnds
    BY <1>19 DEF ReaderEnds
  <1>20. CASE GuestBoots
    BY <1>20, Tokens DEF GuestBoots, Prints
  <1>21. CASE GuestTakesName
    BY <1>21, HeadTail DEF GuestTakesName, Reads
  <1>22. CASE GuestAsksPassword
    BY <1>22, Tokens DEF GuestAsksPassword, Prints
  <1>23. CASE GuestLogsIn
    BY <1>23, HeadTail DEF GuestLogsIn, Reads
  <1>24. CASE GuestRefuses
    BY <1>24, Tokens, HeadTail DEF GuestRefuses, Prints
  <1>25. ASSUME NEW k \in Steps, GuestStarts(k) PROVE Types'
    BY <1>25, Tokens, HeadTail DEF GuestStarts, Prints, Reads, Steps, NSteps
  <1>26. CASE GuestSucceeds
    BY <1>26, Tokens DEF GuestSucceeds, Prints, Steps, NSteps
  <1>27. CASE GuestFails
    BY <1>27 DEF GuestFails, Steps, NSteps
  <1>28. CASE GuestHalts
    BY <1>28, HeadTail DEF GuestHalts, Reads
  <1>29. CASE VmExits
    BY <1>29 DEF VmExits, Ends
  <1>30. CASE WrapperExits
    BY <1>30 DEF WrapperExits
  <1>31. CASE GuestPanics
    BY <1>31, Tokens DEF GuestPanics, Prints
  <1>32. CASE GuestHangs
    BY <1>32 DEF GuestHangs
  <1>33. CASE GuestGarbles
    BY <1>33, Tokens DEF GuestGarbles, Prints
  <1>34. CASE UNCHANGED vars
    BY <1>34 DEF vars
  <1>35. CASE ReaderFails
    BY <1>35 DEF ReaderFails
  <1>36. CASE GuestTakesOther
    BY <1>36, PromptTokens, HeadTail, EchoedTokens DEF GuestTakesOther
  <1> QED
    BY <1>1, <1>2, <1>3, <1>4, <1>5, <1>6, <1>7, <1>8, <1>9, <1>10, <1>11, <1>12, <1>13, <1>14, <1>15, <1>16, <1>17, <1>18, <1>19, <1>20, <1>21, <1>22, <1>23, <1>24, <1>25, <1>26, <1>27, <1>28, <1>29, <1>30, <1>31, <1>32, <1>33, <1>34, <1>35, <1>36 DEF Next, Driver, Reader, Machine, GuestProgress

LEMMA InitTypes == Init => Types
  BY DEF Init, Types, TypeOK, PC, Up, Gone, Steps, NSteps

\* Type correctness, for every guest, wrapper, console and schedule.
THEOREM TypeCorrect == Spec => []TypeOK
  <1>1. Types => TypeOK
    BY DEF Types
  <1> QED
    BY <1>1, InitTypes, TypesInductive, PTL DEF Spec

-----------------------------------------------------------------------------
(* What the driver hears.                                                  *)

\* A marker is printed only by a command that succeeded, and nothing reaches
\* the driver that was not printed: not through pipe, reader or channel.
Heard ==
  /\ \A k \in Steps : Marker(k) \in printed => k \in completed
  /\ pipe \subseteq printed /\ chunk \subseteq printed /\ buf \subseteq printed
  /\ \A i \in 1 .. Len(chan) : chan[i] \subseteq printed

LEMMA HeardInductive == Types /\ Heard /\ [Next]_vars => Heard'
  <1> SUFFICES ASSUME Types, Heard, [Next]_vars PROVE Heard'
    OBVIOUS
  <1> USE DEF Heard, driver, channel, machine
  <1>1. CASE SpawnQemu
    BY <1>1 DEF SpawnQemu
  <1>2. CASE SpawnQemuFails
    BY <1>2 DEF SpawnQemuFails, Verdict
  <1>3. CASE SpawnConsole
    BY <1>3 DEF SpawnConsole
  <1>4. CASE SpawnConsoleFails
    BY <1>4 DEF SpawnConsoleFails, Verdict
  <1>5. CASE Receive
    <2>1. Head(chan) \subseteq printed
      BY <1>5, HeadTail DEF Receive, Types, TypeOK
    <2>2. \A i \in 1 .. Len(chan') : chan'[i] \subseteq printed
      BY <1>5, HeadTail DEF Receive, Types, TypeOK
    <2> QED
      BY <1>5, <2>1, <2>2 DEF Receive
  <1>6. CASE Match
    BY <1>6 DEF Match
  <1>7. CASE Timeout
    BY <1>7 DEF Timeout, NotSeen, Abandon
  <1>8. CASE Disconnected
    BY <1>8 DEF Disconnected, NotSeen, Abandon
  <1>9. CASE SendRoot
    BY <1>9 DEF SendRoot, Sends, Abandon
  <1>10. CASE SendEmpty
    BY <1>10 DEF SendEmpty, Sends, Abandon
  <1>11. CASE SendCommand
    BY <1>11 DEF SendCommand, Sends, Abandon
  <1>12. CASE SendPoweroff
    BY <1>12 DEF SendPoweroff, Sends, Abandon
  <1>13. CASE Exited
    BY <1>13 DEF Exited
  <1>14. CASE Kill
    BY <1>14 DEF Kill
  <1>15. CASE Join
    BY <1>15 DEF Join
  <1>16. CASE Check
    BY <1>16 DEF Check, Verdict
  <1>17. CASE ReaderRead
    BY <1>17 DEF ReaderRead
  <1>18. CASE ReaderForward
    <2>1. \A i \in 1 .. Len(chan') : chan'[i] \subseteq printed
      BY <1>18, Appended DEF ReaderForward, Types, TypeOK
    <2> QED
      BY <1>18, <2>1 DEF ReaderForward
  <1>19. CASE ReaderEnds
    BY <1>19 DEF ReaderEnds
  <1>20. CASE GuestBoots
    BY <1>20, Tokens DEF GuestBoots, Prints
  <1>21. CASE GuestTakesName
    BY <1>21 DEF GuestTakesName, Reads
  <1>22. CASE GuestAsksPassword
    BY <1>22, Tokens DEF GuestAsksPassword, Prints
  <1>23. CASE GuestLogsIn
    BY <1>23 DEF GuestLogsIn, Reads
  <1>24. CASE GuestRefuses
    BY <1>24, Tokens DEF GuestRefuses, Prints
  <1>25. ASSUME NEW k \in Steps, GuestStarts(k) PROVE Heard'
    BY <1>25, Tokens DEF GuestStarts, Prints, Reads
  <1>26. CASE GuestSucceeds
    BY <1>26, Tokens DEF GuestSucceeds, Prints, Types, TypeOK
  <1>27. CASE GuestFails
    BY <1>27 DEF GuestFails
  <1>28. CASE GuestHalts
    BY <1>28 DEF GuestHalts, Reads
  <1>29. CASE VmExits
    BY <1>29 DEF VmExits, Ends
  <1>30. CASE WrapperExits
    BY <1>30 DEF WrapperExits
  <1>31. CASE GuestPanics
    BY <1>31, Tokens DEF GuestPanics, Prints
  <1>32. CASE GuestHangs
    BY <1>32 DEF GuestHangs
  <1>33. CASE GuestGarbles
    BY <1>33, Tokens DEF GuestGarbles, Prints
  <1>34. CASE UNCHANGED vars
    BY <1>34 DEF vars
  <1>35. CASE ReaderFails
    BY <1>35 DEF ReaderFails
  <1>36. CASE GuestTakesOther
    BY <1>36, PromptTokens, EchoedTokens, Tokens DEF GuestTakesOther
  <1> QED
    BY <1>1, <1>2, <1>3, <1>4, <1>5, <1>6, <1>7, <1>8, <1>9, <1>10, <1>11,
       <1>12, <1>13, <1>14, <1>15, <1>16, <1>17, <1>18, <1>19, <1>20, <1>21,
       <1>22, <1>23, <1>24, <1>25, <1>26, <1>27, <1>28, <1>29, <1>30, <1>31,
       <1>32, <1>33, <1>34, <1>35, <1>36 DEF Next, Driver, Reader, Machine, GuestProgress

-----------------------------------------------------------------------------
(* The script.                                                             *)

\* How far the driver is says what the guest has carried out.
Scripted ==
  /\ pc \in {"spawn", "console", "login", "root", "prompt", "empty"} => step = 1
  /\ pc \in {"send", "await"} => 1 .. step - 1 \subseteq completed
  /\ pc = "poweroff" => completed = Steps
  /\ pc \in {"wait", "join", "check"} /\ result = "ok" => completed = Steps
  /\ verdict = "pass" => completed = Steps

LEMMA ScriptedInductive == Types /\ Heard /\ Scripted /\ [Next]_vars => Scripted'
  <1> SUFFICES ASSUME Types, Heard, Scripted, [Next]_vars PROVE Scripted'
    OBVIOUS
  <1>0. step \in Steps /\ completed \subseteq Steps /\ Steps = 1 .. 5 /\ NSteps = 5
    BY DEF Types, TypeOK, Steps, NSteps
  <1> USE DEF Scripted, driver, channel, machine
  <1>1. CASE SpawnQemu
    BY <1>1 DEF SpawnQemu
  <1>2. CASE SpawnQemuFails
    BY <1>2 DEF SpawnQemuFails, Verdict
  <1>3. CASE SpawnConsole
    BY <1>3 DEF SpawnConsole
  <1>4. CASE SpawnConsoleFails
    BY <1>4 DEF SpawnConsoleFails, Verdict
  <1>5. CASE Receive
    BY <1>5 DEF Receive
  <1>6. CASE Match
    <2>1. CASE pc \in {"login", "prompt"}
      BY <1>6, <2>1 DEF Match
    <2>2. CASE pc = "await"
      <3>1. step \in completed
        BY <1>6, <1>0, <2>2 DEF Match, Seen, Heard
      <3>2. 1 .. step \subseteq completed
        BY <1>0, <2>2, <3>1
      <3>3. CASE step < NSteps
        BY <1>6, <1>0, <2>2, <3>2, <3>3 DEF Match
      <3>4. CASE step = NSteps
        <4>1. completed = Steps
          BY <1>0, <3>2, <3>4
        <4> QED
          BY <1>6, <1>0, <2>2, <3>4, <4>1 DEF Match
      <3> QED
        BY <1>0, <3>3, <3>4
    <2> QED
      BY <1>6, <2>1, <2>2 DEF Match, Expecting
  <1>7. CASE Timeout
    BY <1>7, <1>0 DEF Timeout, NotSeen, Abandon, Expecting
  <1>8. CASE Disconnected
    BY <1>8, <1>0 DEF Disconnected, NotSeen, Abandon, Expecting
  <1>9. CASE SendRoot
    BY <1>9, <1>0 DEF SendRoot, Sends, Abandon
  <1>10. CASE SendEmpty
    BY <1>10, <1>0 DEF SendEmpty, Sends, Abandon
  <1>11. CASE SendCommand
    BY <1>11, <1>0 DEF SendCommand, Sends, Abandon
  <1>12. CASE SendPoweroff
    BY <1>12, <1>0 DEF SendPoweroff, Sends, Abandon
  <1>13. CASE Exited
    BY <1>13 DEF Exited
  <1>14. CASE Kill
    BY <1>14 DEF Kill
  <1>15. CASE Join
    BY <1>15 DEF Join
  <1>16. CASE Check
    <2>1. result \in {"ok", "err"}
      BY DEF Types, TypeOK
    <2>2. verdict' = "pass" => result = "ok"
      BY <1>16, <2>1 DEF Check, Verdict
    <2> QED
      BY <1>16, <2>2 DEF Check, Verdict
  <1>17. CASE ReaderRead
    BY <1>17 DEF ReaderRead
  <1>18. CASE ReaderForward
    BY <1>18 DEF ReaderForward
  <1>19. CASE ReaderEnds
    BY <1>19 DEF ReaderEnds
  <1>20. CASE GuestBoots
    BY <1>20 DEF GuestBoots, Prints
  <1>21. CASE GuestTakesName
    BY <1>21 DEF GuestTakesName, Reads
  <1>22. CASE GuestAsksPassword
    BY <1>22 DEF GuestAsksPassword, Prints
  <1>23. CASE GuestLogsIn
    BY <1>23 DEF GuestLogsIn, Reads
  <1>24. CASE GuestRefuses
    BY <1>24 DEF GuestRefuses, Prints
  <1>25. ASSUME NEW k \in Steps, GuestStarts(k) PROVE Scripted'
    BY <1>25 DEF GuestStarts, Prints, Reads
  <1>26. CASE GuestSucceeds
    <2>1. completed' = completed \cup {job} /\ job \in Steps
      BY <1>26 DEF GuestSucceeds, Types
    <2> QED
      BY <1>26, <1>0, <2>1 DEF GuestSucceeds
  <1>27. CASE GuestFails
    BY <1>27 DEF GuestFails
  <1>28. CASE GuestHalts
    BY <1>28 DEF GuestHalts, Reads
  <1>29. CASE VmExits
    BY <1>29 DEF VmExits, Ends
  <1>30. CASE WrapperExits
    BY <1>30 DEF WrapperExits
  <1>31. CASE GuestPanics
    BY <1>31 DEF GuestPanics, Prints
  <1>32. CASE GuestHangs
    BY <1>32 DEF GuestHangs
  <1>33. CASE GuestGarbles
    BY <1>33 DEF GuestGarbles, Prints
  <1>34. CASE UNCHANGED vars
    BY <1>34 DEF vars
  <1>35. CASE ReaderFails
    BY <1>35 DEF ReaderFails
  <1>36. CASE GuestTakesOther
    BY <1>36 DEF GuestTakesOther
  <1> QED
    BY <1>1, <1>2, <1>3, <1>4, <1>5, <1>6, <1>7, <1>8, <1>9, <1>10, <1>11,
       <1>12, <1>13, <1>14, <1>15, <1>16, <1>17, <1>18, <1>19, <1>20, <1>21,
       <1>22, <1>23, <1>24, <1>25, <1>26, <1>27, <1>28, <1>29, <1>30, <1>31,
       <1>32, <1>33, <1>34, <1>35, <1>36 DEF Next, Driver, Reader, Machine, GuestProgress

\* A pass means that the guest carried out all five commands (ktest.rs:15-19),
\* whatever the console, the wrapper, the log and the deadlines do.
THEOREM PassIsSound == Spec => []PassSound
  <1>1. Init => Heard /\ Scripted
    BY DEF Init, Heard, Scripted
  <1>2. Scripted => PassSound
    BY DEF Scripted, PassSound
  <1> QED
    BY <1>1, <1>2, InitTypes, TypesInductive, HeardInductive,
       ScriptedInductive, PTL DEF Spec

\* What the guest has yet to read, and the command it executes, are in order.
Ordered ==
  /\ CommandsInOrder
  /\ guest = "exec" => 1 .. job - 1 \subseteq completed

\* Reading a line keeps the rest in order.
LEMMA ReadsInOrder ==
  ASSUME Types, CommandsInOrder, input # << >>, input' = Tail(input),
         completed \subseteq completed'
  PROVE  CommandsInOrder'
  BY HeadTail DEF Types, TypeOK, CommandsInOrder

LEMMA OrderedInductive == Types /\ Scripted /\ Ordered /\ [Next]_vars => Ordered'
  <1> SUFFICES ASSUME Types, Scripted, Ordered, [Next]_vars PROVE Ordered'
    OBVIOUS
  <1>0. ASSUME input' = input, completed \subseteq completed' PROVE CommandsInOrder'
    BY <1>0 DEF Ordered, CommandsInOrder
  <1> USE DEF Ordered, driver, channel, machine
  <1>1. CASE SpawnQemu
    BY <1>1, <1>0 DEF SpawnQemu
  <1>2. CASE SpawnQemuFails
    BY <1>2, <1>0 DEF SpawnQemuFails, Verdict
  <1>3. CASE SpawnConsole
    BY <1>3, <1>0 DEF SpawnConsole
  <1>4. CASE SpawnConsoleFails
    BY <1>4, <1>0 DEF SpawnConsoleFails, Verdict
  <1>5. CASE Receive
    BY <1>5, <1>0 DEF Receive
  <1>6. CASE Match
    BY <1>6, <1>0 DEF Match
  <1>7. CASE Timeout
    BY <1>7, <1>0 DEF Timeout, NotSeen, Abandon
  <1>8. CASE Disconnected
    BY <1>8, <1>0 DEF Disconnected, NotSeen, Abandon
  <1>9. CASE SendRoot
    <2>1. CASE VmGone
      BY <1>9, <1>0, <2>1 DEF SendRoot, Sends, Abandon
    <2>2. CASE ~VmGone
      <3>1. input' = Append(input, Root) /\ completed' = completed
        BY <1>9, <2>2 DEF SendRoot, Sends
      <3>2. \A i \in 1 .. Len(input') :
              \/ i \in 1 .. Len(input) /\ input'[i] = input[i]
              \/ input'[i] = Root
        BY <3>1, Lines, Appended DEF Types, TypeOK
      <3>3. CommandsInOrder'
        BY <3>1, <3>2, Lines DEF CommandsInOrder
      <3> QED
        BY <1>9, <3>1, <3>3 DEF SendRoot, Sends
    <2> QED
      BY <2>1, <2>2
  <1>10. CASE SendEmpty
    <2>1. CASE VmGone
      BY <1>10, <1>0, <2>1 DEF SendEmpty, Sends, Abandon
    <2>2. CASE ~VmGone
      <3>1. input' = Append(input, EmptyLine) /\ completed' = completed
        BY <1>10, <2>2 DEF SendEmpty, Sends
      <3>2. \A i \in 1 .. Len(input') :
              \/ i \in 1 .. Len(input) /\ input'[i] = input[i]
              \/ input'[i] = EmptyLine
        BY <3>1, Lines, Appended DEF Types, TypeOK
      <3>3. CommandsInOrder'
        BY <3>1, <3>2, Lines DEF CommandsInOrder
      <3> QED
        BY <1>10, <3>1, <3>3 DEF SendEmpty, Sends
    <2> QED
      BY <2>1, <2>2
  <1>11. CASE SendCommand
    <2>1. CASE VmGone
      BY <1>11, <1>0, <2>1 DEF SendCommand, Sends, Abandon
    <2>2. CASE ~VmGone
      <3>1. input' = Append(input, Command(step)) /\ completed' = completed
        BY <1>11, <2>2 DEF SendCommand, Sends
      <3>2. \A i \in 1 .. Len(input') :
              \/ i \in 1 .. Len(input) /\ input'[i] = input[i]
              \/ input'[i] = Command(step)
        BY <3>1, Lines, Appended DEF Types, TypeOK
      <3>3. CommandsInOrder'
        <4>1. 1 .. step - 1 \subseteq completed /\ step \in Steps
          BY <1>11 DEF SendCommand, Sends, Scripted, Types, TypeOK
        <4>2. \A k \in Steps : Command(step) = Command(k) => k = step
          BY <4>1, Lines
        <4> QED
          BY <3>1, <3>2, <4>1, <4>2 DEF CommandsInOrder
      <3> QED
        BY <1>11, <3>1, <3>3 DEF SendCommand, Sends
    <2> QED
      BY <2>1, <2>2
  <1>12. CASE SendPoweroff
    <2>1. CASE VmGone
      BY <1>12, <1>0, <2>1 DEF SendPoweroff, Sends, Abandon
    <2>2. CASE ~VmGone
      <3>1. input' = Append(input, Poweroff) /\ completed' = completed
        BY <1>12, <2>2 DEF SendPoweroff, Sends
      <3>2. \A i \in 1 .. Len(input') :
              \/ i \in 1 .. Len(input) /\ input'[i] = input[i]
              \/ input'[i] = Poweroff
        BY <3>1, Lines, Appended DEF Types, TypeOK
      <3>3. CommandsInOrder'
        BY <3>1, <3>2, Lines DEF CommandsInOrder
      <3> QED
        BY <1>12, <3>1, <3>3 DEF SendPoweroff, Sends
    <2> QED
      BY <2>1, <2>2
  <1>13. CASE Exited
    BY <1>13, <1>0 DEF Exited
  <1>14. CASE Kill
    BY <1>14, <1>0 DEF Kill
  <1>15. CASE Join
    BY <1>15, <1>0 DEF Join
  <1>16. CASE Check
    BY <1>16, <1>0 DEF Check, Verdict
  <1>17. CASE ReaderRead
    BY <1>17, <1>0 DEF ReaderRead
  <1>18. CASE ReaderForward
    BY <1>18, <1>0 DEF ReaderForward
  <1>19. CASE ReaderEnds
    BY <1>19, <1>0 DEF ReaderEnds
  <1>20. CASE GuestBoots
    BY <1>20, <1>0 DEF GuestBoots, Prints
  <1>21. CASE GuestTakesName
    BY <1>21, ReadsInOrder DEF GuestTakesName, Reads
  <1>22. CASE GuestAsksPassword
    BY <1>22, <1>0 DEF GuestAsksPassword, Prints
  <1>23. CASE GuestLogsIn
    BY <1>23, <1>0, ReadsInOrder DEF GuestLogsIn, Reads
  <1>24. CASE GuestRefuses
    BY <1>24, ReadsInOrder DEF GuestRefuses, Prints
  <1>25. ASSUME NEW k \in Steps, GuestStarts(k) PROVE Ordered'
    <2>1. 1 \in 1 .. Len(input) /\ input[1] = Command(k)
      BY <1>25, HeadTail DEF GuestStarts, Reads, Types, TypeOK
    <2>2. 1 .. k - 1 \subseteq completed
      BY <2>1 DEF CommandsInOrder
    <2>3. CommandsInOrder'
      BY <1>25, ReadsInOrder DEF GuestStarts, Reads
    <2> QED
      BY <1>25, <2>2, <2>3 DEF GuestStarts
  <1>26. CASE GuestSucceeds
    BY <1>26, <1>0 DEF GuestSucceeds, Prints
  <1>27. CASE GuestFails
    BY <1>27, <1>0 DEF GuestFails
  <1>28. CASE GuestHalts
    BY <1>28, ReadsInOrder DEF GuestHalts, Reads
  <1>29. CASE VmExits
    BY <1>29, <1>0 DEF VmExits, Ends
  <1>30. CASE WrapperExits
    BY <1>30, <1>0 DEF WrapperExits
  <1>31. CASE GuestPanics
    BY <1>31, <1>0 DEF GuestPanics, Prints
  <1>32. CASE GuestHangs
    BY <1>32, <1>0 DEF GuestHangs
  <1>33. CASE GuestGarbles
    BY <1>33, <1>0 DEF GuestGarbles, Prints
  <1>34. CASE UNCHANGED vars
    BY <1>0, <1>34 DEF vars
  <1>35. CASE ReaderFails
    BY <1>35, <1>0 DEF ReaderFails
  <1>36. CASE GuestTakesOther
    BY <1>36, ReadsInOrder DEF GuestTakesOther
  <1> QED
    BY <1>1, <1>2, <1>3, <1>4, <1>5, <1>6, <1>7, <1>8, <1>9, <1>10, <1>11,
       <1>12, <1>13, <1>14, <1>15, <1>16, <1>17, <1>18, <1>19, <1>20, <1>21,
       <1>22, <1>23, <1>24, <1>25, <1>26, <1>27, <1>28, <1>29, <1>30, <1>31,
       <1>32, <1>33, <1>34, <1>35, <1>36 DEF Next, Driver, Reader, Machine, GuestProgress

\* No command is sent before the guest carried out all those before it, under
\* every schedule of driver, reader and guest.
THEOREM CommandsAreOrdered == Spec => []CommandsInOrder
  <1>1. Init => Heard /\ Scripted /\ Ordered
    BY DEF Init, Heard, Scripted, Ordered, CommandsInOrder
  <1>2. Ordered => CommandsInOrder
    BY DEF Ordered
  <1> QED
    BY <1>1, <1>2, InitTypes, TypesInductive, HeardInductive,
       ScriptedInductive, OrderedInductive, PTL DEF Spec

-----------------------------------------------------------------------------
(* The end of the VM and of the console.                                   *)

\* A reader that does not fail ends only once the VM is gone and its output read;
\* the log is only searched after the end of the reader and of the child, which
\* without a wrapper is the VM's.
Ended ==
  /\ verdict # "none" => pc = "done"
  /\ pc \in {"spawn", "console"} => reader = "none"
  /\ pc = "check" => reader = "end"
  /\ pc = "done" => reader \in {"none", "end"}
  /\ reader = "end" /\ ~ReadFails => VmGone /\ pipe = {}
  /\ verdict = "pass" => reader = "end"
  /\ pc \in {"join", "check"} => child = "exited"
  /\ pc = "done" /\ reader # "none" => child = "exited"
  /\ child = "exited" /\ ~Wrapper => guest \in Gone

LEMMA EndedInductive == Types /\ Ended /\ [Next]_vars => Ended'
  <1> SUFFICES ASSUME Types, Ended, [Next]_vars PROVE Ended'
    OBVIOUS
  <1> USE DEF Ended, VmGone, Gone, driver, channel, machine
  <1>1. CASE SpawnQemu
    BY <1>1 DEF SpawnQemu
  <1>2. CASE SpawnQemuFails
    BY <1>2 DEF SpawnQemuFails, Verdict
  <1>3. CASE SpawnConsole
    BY <1>3 DEF SpawnConsole
  <1>4. CASE SpawnConsoleFails
    BY <1>4 DEF SpawnConsoleFails, Verdict
  <1>5. CASE Receive
    BY <1>5 DEF Receive, Expecting
  <1>6. CASE Match
    BY <1>6 DEF Match, Expecting
  <1>7. CASE Timeout
    BY <1>7 DEF Timeout, NotSeen, Abandon, Expecting
  <1>8. CASE Disconnected
    BY <1>8 DEF Disconnected, NotSeen, Abandon, Expecting
  <1>9. CASE SendRoot
    BY <1>9 DEF SendRoot, Sends, Abandon
  <1>10. CASE SendEmpty
    BY <1>10 DEF SendEmpty, Sends, Abandon
  <1>11. CASE SendCommand
    BY <1>11 DEF SendCommand, Sends, Abandon
  <1>12. CASE SendPoweroff
    BY <1>12 DEF SendPoweroff, Sends, Abandon
  <1>13. CASE Exited
    BY <1>13 DEF Exited
  <1>14. CASE Kill
    BY <1>14 DEF Kill
  <1>15. CASE Join
    BY <1>15 DEF Join
  <1>16. CASE Check
    BY <1>16 DEF Check, Verdict
  <1>17. CASE ReaderRead
    BY <1>17 DEF ReaderRead
  <1>18. CASE ReaderForward
    BY <1>18 DEF ReaderForward
  <1>19. CASE ReaderEnds
    BY <1>19 DEF ReaderEnds
  <1>20. CASE GuestBoots
    BY <1>20 DEF GuestBoots, Prints, Up
  <1>21. CASE GuestTakesName
    BY <1>21 DEF GuestTakesName, Reads, Up
  <1>22. CASE GuestAsksPassword
    BY <1>22 DEF GuestAsksPassword, Prints, Up
  <1>23. CASE GuestLogsIn
    BY <1>23 DEF GuestLogsIn, Reads, Up
  <1>24. CASE GuestRefuses
    BY <1>24 DEF GuestRefuses, Prints, Up
  <1>25. ASSUME NEW k \in Steps, GuestStarts(k) PROVE Ended'
    BY <1>25 DEF GuestStarts, Prints, Reads, Up
  <1>26. CASE GuestSucceeds
    BY <1>26 DEF GuestSucceeds, Prints, Up
  <1>27. CASE GuestFails
    BY <1>27 DEF GuestFails, Up
  <1>28. CASE GuestHalts
    BY <1>28 DEF GuestHalts, Reads, Up
  <1>29. CASE VmExits
    BY <1>29 DEF VmExits, Ends
  <1>30. CASE WrapperExits
    BY <1>30 DEF WrapperExits
  <1>31. CASE GuestPanics
    BY <1>31 DEF GuestPanics, Prints, Up
  <1>32. CASE GuestHangs
    BY <1>32 DEF GuestHangs, Up
  <1>33. CASE GuestGarbles
    BY <1>33 DEF GuestGarbles, Prints, Up
  <1>34. CASE UNCHANGED vars
    BY <1>34 DEF vars
  <1>35. CASE ReaderFails
    BY <1>35 DEF ReaderFails
  <1>36. CASE GuestTakesOther
    BY <1>36 DEF GuestTakesOther, Up
  <1> QED
    BY <1>1, <1>2, <1>3, <1>4, <1>5, <1>6, <1>7, <1>8, <1>9, <1>10, <1>11,
       <1>12, <1>13, <1>14, <1>15, <1>16, <1>17, <1>18, <1>19, <1>20, <1>21,
       <1>22, <1>23, <1>24, <1>25, <1>26, <1>27, <1>28, <1>29, <1>30, <1>31,
       <1>32, <1>33, <1>34, <1>35, <1>36 DEF Next, Driver, Reader, Machine, GuestProgress

\* Once a test that got as far as a console has its verdict, its VM is gone
\* (ktest.rs:438-445): without a wrapper because the child is reaped, behind one
\* because the reader that was joined saw the end of qemu's output.
THEOREM NoVmIsLeft == ASSUME ~Wrapper \/ ~ReadFails PROVE Spec => []NoVmLeft
  <1>1. Init => Types /\ Ended
    BY InitTypes DEF Init, Ended
  <1>2. Ended => NoVmLeft
    BY DEF Ended, NoVmLeft, VmGone
  <1> QED
    BY <1>1, <1>2, TypesInductive, EndedInductive, PTL DEF Spec

-----------------------------------------------------------------------------
(* The log.                                                                *)

\* On a console that is UTF-8 and can be read to its end, and with a log that
\* takes every write, a panic is in the log or still in the pipe.
Faithful == Utf8Only /\ ~LossyLog /\ ~ReadFails

Logged ==
  /\ BadBytes \notin printed
  /\ log \subseteq printed
  /\ PanicText \in printed => PanicText \in log \cup pipe
  /\ verdict = "pass" => PanicText \notin printed

LEMMA LoggedInductive ==
  ASSUME Faithful
  PROVE  Types /\ Heard /\ Ended /\ Logged /\ [Next]_vars => Logged'
  <1> SUFFICES ASSUME Types, Heard, Ended, Logged, [Next]_vars PROVE Logged'
    OBVIOUS
  <1>0. verdict = "pass" => guest \in Gone
    BY DEF Ended, VmGone, Faithful
  <1> USE DEF Logged, driver, channel, machine
  <1>1. CASE SpawnQemu
    BY <1>1 DEF SpawnQemu
  <1>2. CASE SpawnQemuFails
    BY <1>2 DEF SpawnQemuFails, Verdict
  <1>3. CASE SpawnConsole
    BY <1>3 DEF SpawnConsole
  <1>4. CASE SpawnConsoleFails
    BY <1>4 DEF SpawnConsoleFails, Verdict
  <1>5. CASE Receive
    BY <1>5 DEF Receive
  <1>6. CASE Match
    BY <1>6 DEF Match
  <1>7. CASE Timeout
    BY <1>7 DEF Timeout, NotSeen, Abandon
  <1>8. CASE Disconnected
    BY <1>8 DEF Disconnected, NotSeen, Abandon
  <1>9. CASE SendRoot
    BY <1>9 DEF SendRoot, Sends, Abandon
  <1>10. CASE SendEmpty
    BY <1>10 DEF SendEmpty, Sends, Abandon
  <1>11. CASE SendCommand
    BY <1>11 DEF SendCommand, Sends, Abandon
  <1>12. CASE SendPoweroff
    BY <1>12 DEF SendPoweroff, Sends, Abandon
  <1>13. CASE Exited
    BY <1>13 DEF Exited
  <1>14. CASE Kill
    BY <1>14 DEF Kill
  <1>15. CASE Join
    BY <1>15 DEF Join
  <1>16. CASE Check
    <2>1. pipe = {}
      BY <1>16 DEF Check, Ended, Faithful
    <2>2. LogText = log
      BY DEF LogText
    <2>3. verdict' = "pass" => PanicText \notin log
      BY <1>16, <2>2 DEF Check, Verdict
    <2> QED
      BY <1>16, <2>1, <2>3 DEF Check
  <1>17. CASE ReaderRead
    <2>1. log' = log \cup (pipe \cap Searched) /\ pipe' = {} /\ printed' = printed
      BY <1>17 DEF ReaderRead, Faithful
    <2> QED
      BY <1>17, <2>1 DEF ReaderRead, Searched, Heard
  <1>18. CASE ReaderForward
    BY <1>18 DEF ReaderForward
  <1>19. CASE ReaderEnds
    BY <1>19 DEF ReaderEnds
  <1>20. CASE GuestBoots
    BY <1>20, <1>0, Tokens DEF GuestBoots, Prints, Gone
  <1>21. CASE GuestTakesName
    BY <1>21 DEF GuestTakesName, Reads
  <1>22. CASE GuestAsksPassword
    BY <1>22, <1>0, Tokens DEF GuestAsksPassword, Prints, Gone
  <1>23. CASE GuestLogsIn
    BY <1>23 DEF GuestLogsIn, Reads
  <1>24. CASE GuestRefuses
    BY <1>24, <1>0, Tokens DEF GuestRefuses, Prints, Gone
  <1>25. ASSUME NEW k \in Steps, GuestStarts(k) PROVE Logged'
    BY <1>25, <1>0, Tokens DEF GuestStarts, Prints, Reads, Gone
  <1>26. CASE GuestSucceeds
    <2>1. job \in Steps
      BY <1>26 DEF GuestSucceeds, Types
    <2> QED
      BY <1>26, <1>0, <2>1, Tokens DEF GuestSucceeds, Prints, Gone
  <1>27. CASE GuestFails
    BY <1>27 DEF GuestFails
  <1>28. CASE GuestHalts
    BY <1>28 DEF GuestHalts, Reads
  <1>29. CASE VmExits
    BY <1>29 DEF VmExits, Ends
  <1>30. CASE WrapperExits
    BY <1>30 DEF WrapperExits
  <1>31. CASE GuestPanics
    BY <1>31, <1>0, Tokens DEF GuestPanics, Prints, Gone, Up
  <1>32. CASE GuestHangs
    BY <1>32 DEF GuestHangs
  <1>33. CASE GuestGarbles
    BY <1>33 DEF GuestGarbles, Faithful
  <1>34. CASE UNCHANGED vars
    BY <1>34 DEF vars
  <1>35. CASE ReaderFails
    BY <1>35 DEF ReaderFails, Faithful
  <1>36. CASE GuestTakesOther
    BY <1>36, <1>0, EchoedTokens, Tokens DEF GuestTakesOther, Gone
  <1> QED
    BY <1>1, <1>2, <1>3, <1>4, <1>5, <1>6, <1>7, <1>8, <1>9, <1>10, <1>11,
       <1>12, <1>13, <1>14, <1>15, <1>16, <1>17, <1>18, <1>19, <1>20, <1>21,
       <1>22, <1>23, <1>24, <1>25, <1>26, <1>27, <1>28, <1>29, <1>30, <1>31,
       <1>32, <1>33, <1>34, <1>35, <1>36 DEF Next, Driver, Reader, Machine, GuestProgress

\* A pass means that no panic was printed, before or after the last marker
\* (ktest.rs:17-19), provided the log holds all of a console that is UTF-8.
THEOREM PassHasNoPanic == ASSUME Faithful PROVE Spec => []PassNoPanic
  <1>1. Init => Types /\ Heard /\ Ended /\ Logged
    BY InitTypes DEF Init, Heard, Ended, Logged
  <1>2. Logged => PassNoPanic
    BY DEF Logged, PassNoPanic
  <1> QED
    BY <1>1, <1>2, TypesInductive, HeardInductive, EndedInductive,
       LoggedInductive, PTL DEF Spec

-----------------------------------------------------------------------------
(* The contract.                                                           *)

LEMMA ContractStep ==
  ASSUME Faithful
  PROVE  Types /\ Heard /\ Scripted /\ Ordered /\ Ended /\ Logged /\ Logged' /\ [Next]_vars
           => [Contract!Next]_Contract!cvars
  <1> SUFFICES ASSUME Types, Heard, Scripted, Ordered, Ended, Logged, Logged', [Next]_vars
               PROVE  [Contract!Next]_Contract!cvars
    OBVIOUS
  <1>0. ASSUME UNCHANGED <<completed, printed, verdict>>
        PROVE  [Contract!Next]_Contract!cvars
    BY <1>0 DEF Contract!cvars
  <1>a. ASSUME UNCHANGED <<completed, printed>>, verdict = "none", verdict' = "fail"
        PROVE  [Contract!Next]_Contract!cvars
    BY <1>a DEF Contract!Next, Contract!Fail
  <1>b. ASSUME UNCHANGED <<completed, verdict>>, NEW t \in Token \ {PanicText}, Prints(t)
        PROVE  [Contract!Next]_Contract!cvars
    BY <1>b DEF Contract!cvars, Prints
  <1>c. guest \notin Gone => verdict # "pass"
    BY DEF Ended, VmGone, Faithful
  <1>v. pc # "done" => verdict = "none"
    BY DEF Ended
  <1> USE DEF driver, channel, machine
  <1>1. CASE SpawnQemu
    BY <1>1, <1>0 DEF SpawnQemu
  <1>2. CASE SpawnQemuFails
    BY <1>2, <1>a, <1>v DEF SpawnQemuFails, Verdict
  <1>3. CASE SpawnConsole
    BY <1>3, <1>0 DEF SpawnConsole
  <1>4. CASE SpawnConsoleFails
    BY <1>4, <1>a, <1>v DEF SpawnConsoleFails, Verdict
  <1>5. CASE Receive
    BY <1>5, <1>0 DEF Receive
  <1>6. CASE Match
    BY <1>6, <1>0 DEF Match
  <1>7. CASE Timeout
    BY <1>7, <1>0 DEF Timeout, NotSeen, Abandon
  <1>8. CASE Disconnected
    BY <1>8, <1>0 DEF Disconnected, NotSeen, Abandon
  <1>9. CASE SendRoot
    BY <1>9, <1>0 DEF SendRoot, Sends, Abandon
  <1>10. CASE SendEmpty
    BY <1>10, <1>0 DEF SendEmpty, Sends, Abandon
  <1>11. CASE SendCommand
    BY <1>11, <1>0 DEF SendCommand, Sends, Abandon
  <1>12. CASE SendPoweroff
    BY <1>12, <1>0 DEF SendPoweroff, Sends, Abandon
  <1>13. CASE Exited
    BY <1>13, <1>0 DEF Exited
  <1>14. CASE Kill
    BY <1>14, <1>0 DEF Kill
  <1>15. CASE Join
    BY <1>15, <1>0 DEF Join
  <1>16. CASE Check
    <2>1. verdict = "none" /\ UNCHANGED <<completed, printed>>
      BY <1>16, <1>v DEF Check
    <2>2. CASE verdict' = "fail"
      BY <1>a, <2>1, <2>2
    <2>3. CASE verdict' = "pass"
      <3>1. result = "ok"
        BY <1>16, <2>3 DEF Check, Verdict, Types, TypeOK
      <3>2. completed = Steps
        BY <1>16, <3>1 DEF Check, Scripted
      <3>3. PanicText \notin printed
        BY <2>1, <2>3 DEF Logged
      <3>4. Contract!Pass
        BY <2>1, <2>3, <3>2, <3>3 DEF Contract!Pass, Steps
      <3> QED
        BY <3>4 DEF Contract!Next
    <2> QED
      BY <1>16, <2>2, <2>3 DEF Check, Verdict
  <1>17. CASE ReaderRead
    BY <1>17, <1>0 DEF ReaderRead
  <1>18. CASE ReaderForward
    BY <1>18, <1>0 DEF ReaderForward
  <1>19. CASE ReaderEnds
    BY <1>19, <1>0 DEF ReaderEnds
  <1>20. CASE GuestBoots
    <2>1. LoginPrompt \in Token \ {PanicText}
      BY Tokens
    <2>2. Prints(LoginPrompt) /\ UNCHANGED <<completed, verdict>>
      BY <1>20 DEF GuestBoots
    <2> QED
      BY <1>b, <2>1, <2>2
  <1>21. CASE GuestTakesName
    BY <1>21, <1>0 DEF GuestTakesName, Reads
  <1>22. CASE GuestAsksPassword
    <2>1. PasswordPrompt \in Token \ {PanicText}
      BY Tokens
    <2>2. Prints(PasswordPrompt) /\ UNCHANGED <<completed, verdict>>
      BY <1>22 DEF GuestAsksPassword
    <2> QED
      BY <1>b, <2>1, <2>2
  <1>23. CASE GuestLogsIn
    BY <1>23, <1>0 DEF GuestLogsIn, Reads
  <1>24. CASE GuestRefuses
    <2>1. LoginPrompt \in Token \ {PanicText}
      BY Tokens
    <2>2. Prints(LoginPrompt) /\ UNCHANGED <<completed, verdict>>
      BY <1>24 DEF GuestRefuses
    <2> QED
      BY <1>b, <2>1, <2>2
  <1>25. ASSUME NEW k \in Steps, GuestStarts(k) PROVE [Contract!Next]_Contract!cvars
    <2>1. Echo(k) \in Token \ {PanicText}
      BY Tokens
    <2>2. Prints(Echo(k)) /\ UNCHANGED <<completed, verdict>>
      BY <1>25 DEF GuestStarts
    <2> QED
      BY <1>b, <2>1, <2>2
  <1>26. CASE GuestSucceeds
    <2>1. job \in Steps /\ verdict # "pass" /\ 1 .. job - 1 \subseteq completed
      BY <1>26, <1>c DEF GuestSucceeds, Types, Gone, Ordered
    <2>2. PanicText \in printed' <=> PanicText \in printed
      BY <1>26, <2>1, Tokens DEF GuestSucceeds, Prints
    <2>3. Contract!Complete(job)
      BY <1>26, <2>1, <2>2 DEF GuestSucceeds, Contract!Complete
    <2> QED
      BY <2>1, <2>3 DEF Contract!Next, Steps
  <1>27. CASE GuestFails
    BY <1>27, <1>0 DEF GuestFails
  <1>28. CASE GuestHalts
    BY <1>28, <1>0 DEF GuestHalts, Reads
  <1>29. CASE VmExits
    BY <1>29, <1>0 DEF VmExits, Ends
  <1>30. CASE WrapperExits
    BY <1>30, <1>0 DEF WrapperExits
  <1>31. CASE GuestPanics
    <2>1. verdict # "pass"
      BY <1>31, <1>c DEF GuestPanics, Up, Gone
    <2>2. Contract!Panic
      BY <1>31, <2>1 DEF GuestPanics, Prints, Contract!Panic
    <2> QED
      BY <2>2 DEF Contract!Next
  <1>32. CASE GuestHangs
    BY <1>32, <1>0 DEF GuestHangs
  <1>33. CASE GuestGarbles
    BY <1>33 DEF GuestGarbles, Faithful
  <1>34. CASE UNCHANGED vars
    BY <1>0, <1>34 DEF vars
  <1>35. CASE ReaderFails
    BY <1>35, <1>0 DEF ReaderFails
  <1>36. CASE GuestTakesOther
    <2>1. PanicText \notin Echoed(Head(input)) \cup {PasswordPrompt}
      BY EchoedTokens, Tokens
    <2>2. (PanicText \in printed' <=> PanicText \in printed) /\ UNCHANGED <<completed, verdict>>
      BY <1>36, <2>1 DEF GuestTakesOther
    <2> QED
      BY <2>2 DEF Contract!cvars
  <1> QED
    BY <1>1, <1>2, <1>3, <1>4, <1>5, <1>6, <1>7, <1>8, <1>9, <1>10, <1>11,
       <1>12, <1>13, <1>14, <1>15, <1>16, <1>17, <1>18, <1>19, <1>20, <1>21,
       <1>22, <1>23, <1>24, <1>25, <1>26, <1>27, <1>28, <1>29, <1>30, <1>31,
       <1>32, <1>33, <1>34, <1>35, <1>36 DEF Next, Driver, Reader, Machine, GuestProgress

\* The driver and its threads implement the contract of a verdict: each step of
\* theirs and of the guest is a step of KtestContract or leaves it alone.
THEOREM KeepsContract == ASSUME Faithful PROVE Spec => ImplementsContract
  <1>1. Init => Types /\ Heard /\ Scripted /\ Ordered /\ Ended /\ Logged
    BY InitTypes DEF Init, Heard, Scripted, Ordered, CommandsInOrder, Ended, Logged
  <1>2. Init => Contract!Init
    BY DEF Init, Contract!Init
  <1> QED
    BY <1>1, <1>2, TypesInductive, HeardInductive, ScriptedInductive,
       OrderedInductive, EndedInductive, LoggedInductive, ContractStep, PTL
       DEF Spec, ImplementsContract, Contract!Spec

-----------------------------------------------------------------------------
(* What is typed, and who reads it.                                        *)

Lost    == {"panicked", "hung"} \cup Gone
InShell == {"shell", "exec", "halting"}

\* Which lines a guest that still runs may yet read.  The name comes first and
\* the empty line only when the password was asked for; all but the first echo
\* was typed to a guest that answered that echo, and so has a shell.
Placed ==
  /\ guest = "none" => pc \in {"spawn", "done"}
  /\ pc \in {"spawn", "console", "login", "root"} =>
       input = << >> /\ guest \in {"none", "boot", "login"}
  /\ pc = "prompt" => \/ guest \in {"boot", "login"} /\ input = <<Root>>
                      \/ guest \in {"auth", "passwd", "shell"} /\ input = << >>
  /\ pc = "empty" => guest = "passwd" /\ input = << >>
  /\ pc \in {"spawn", "console", "login", "root", "prompt"} /\ guest # "passwd" =>
       PasswordPrompt \notin printed
  /\ \A i \in 1 .. Len(input) :
       /\ input[i] = Root => i = 1 /\ guest \in {"boot", "login"}
       /\ input[i] = EmptyLine => i = 1 /\ guest = "passwd"
       /\ input[i] \notin {Root, EmptyLine, Command(1)} => guest \in InShell
  /\ 1 \in completed => guest \in InShell

Read ==
  /\ OnlyEchoSwallowed
  /\ pc = "spawn" => guest = "none"
  /\ guest \notin Lost => Placed

\* Reading a line leaves the others where the guest that reads them still is.
LEMMA ReadsPlaced ==
  ASSUME Types, Placed, input # << >>, input' = Tail(input)
  PROVE  /\ \A i \in 1 .. Len(input') :
              /\ input'[i] \notin {Root, EmptyLine}
              /\ input'[i] # Command(1) => guest \in InShell
         /\ pc \notin {"spawn", "console", "login", "root", "empty"}
         /\ pc = "prompt" => guest \in {"boot", "login"} /\ Head(input) = Root /\ input' = << >>
         /\ Head(input) = Root => guest \in {"boot", "login"}
         /\ Head(input) = EmptyLine => guest = "passwd"
         /\ Head(input) \notin {Root, EmptyLine, Command(1)} => guest \in InShell
  <1>1. /\ \A i \in 1 .. Len(input') : i + 1 \in 1 .. Len(input) /\ input'[i] = input[i + 1]
        /\ 1 \in 1 .. Len(input) /\ Head(input) = input[1]
    BY HeadTail DEF Types, TypeOK
  <1>2. ASSUME NEW i \in 1 .. Len(input') PROVE i + 1 # 1
    OBVIOUS
  <1>3. pc = "prompt" => input = <<Root>>
    BY DEF Placed
  <1> QED
    BY <1>1, <1>2, <1>3 DEF Placed

\* Sending a line changes the last of the lines only.
LEMMA SendsPlaced ==
  ASSUME Types, Read, NEW at, NEW line \in Line, NEW next, Sends(at, line, next),
         \/ at = "root" /\ line = Root /\ next = "prompt"
         \/ at = "empty" /\ line = EmptyLine /\ next = "send"
         \/ /\ at \in {"send", "poweroff"} /\ line \notin {Root, EmptyLine}
            /\ next \in {"await", "wait"}
            /\ line # Command(1) => 1 \in completed
  PROVE  Read'
  <1> USE DEF Sends, driver, channel
  <1>1. CASE guest \in Lost
    BY <1>1 DEF Read, OnlyEchoSwallowed, Abandon
  <1>2. CASE guest \notin Lost
    <2>1. Placed /\ ~VmGone /\ pc = at /\ input' = Append(input, line) /\ pc' = next
          /\ UNCHANGED <<guest, completed, printed, swallowed>>
      BY <1>2 DEF Read, VmGone, Lost
    <2>2. \A i \in 1 .. Len(input') :
            \/ i \in 1 .. Len(input) /\ input'[i] = input[i]
            \/ input'[i] = line
      BY <2>1, Appended DEF Types, TypeOK
    <2>3. input = << >> => input' = <<line>> /\ \A i \in 1 .. Len(input') : i = 1
      BY <2>1
    <2>4. CASE at = "root"
      BY <2>1, <2>2, <2>3, <2>4, PromptTokens, Lines DEF Placed, Read, OnlyEchoSwallowed
    <2>5. CASE at = "empty"
      BY <2>1, <2>2, <2>3, <2>5, PromptTokens, Lines DEF Placed, Read, OnlyEchoSwallowed
    <2>6. CASE at \in {"send", "poweroff"}
      BY <2>1, <2>2, <2>6 DEF Placed, Read, OnlyEchoSwallowed
    <2> QED
      BY <2>4, <2>5, <2>6
  <1> QED
    BY <1>1, <1>2

LEMMA ReadInductive == Types /\ Heard /\ Scripted /\ Read /\ [Next]_vars => Read'
  <1> SUFFICES ASSUME Types, Heard, Scripted, Read, [Next]_vars PROVE Read'
    OBVIOUS
  <1>0. ASSUME UNCHANGED <<pc, guest, input, completed, printed, swallowed>> PROVE Read'
    BY <1>0 DEF Read, OnlyEchoSwallowed, Placed
  <1>a. ASSUME guest' \in Lost, swallowed' = swallowed, pc' # "spawn" PROVE Read'
    BY <1>a DEF Read, OnlyEchoSwallowed
  <1>b. ASSUME guest' = guest, swallowed' = swallowed, pc' # "spawn",
               guest \notin Lost => Placed'
        PROVE  Read'
    BY <1>b DEF Read, OnlyEchoSwallowed
  <1>c. guest \notin Lost => Placed
    BY DEF Read
  <1>e. ASSUME UNCHANGED pc, guest \in Lost \cup Up PROVE pc' # "spawn"
    BY <1>e DEF Read, Lost, Gone, Up
  <1>d. 1 \in Steps /\ Command(1) \notin {Root, EmptyLine}
    BY Lines DEF Steps, NSteps
  <1> USE DEF driver, channel, machine
  <1>1. CASE SpawnQemu
    <2>1. Placed /\ pc = "spawn" /\ pc' = "console" /\ guest' = "boot"
          /\ UNCHANGED <<input, completed, printed, swallowed>>
      BY <1>1, <1>c DEF SpawnQemu, Read, Lost, Gone
    <2> QED
      BY <2>1 DEF Read, OnlyEchoSwallowed, Placed, InShell
  <1>2. CASE SpawnQemuFails \/ SpawnConsoleFails
    BY <1>2, <1>b, <1>c DEF SpawnQemuFails, SpawnConsoleFails, Verdict, Placed
  <1>3. CASE SpawnConsole
    BY <1>3, <1>b, <1>c DEF SpawnConsole, Placed
  <1>4. CASE Receive \/ Reader \/ ReaderFails
    BY <1>4, <1>0 DEF Receive, Reader, ReaderRead, ReaderForward, ReaderEnds, ReaderFails
  <1>5. CASE Match
    <2>1. pc = "prompt" => PasswordPrompt \in printed
      BY <1>5 DEF Match, Seen, Heard
    <2>2. guest \notin Lost => Placed'
      BY <1>5, <1>c, <2>1 DEF Match, Placed, Expecting
    <2> QED
      BY <1>5, <1>b, <2>2 DEF Match
  <1>6. CASE Timeout \/ Disconnected
    <2>1. guest \notin Lost => Placed'
      BY <1>6, <1>c DEF Timeout, Disconnected, NotSeen, Abandon, Placed
    <2> QED
      BY <1>6, <1>b, <2>1 DEF Timeout, Disconnected, NotSeen, Abandon
  <1>7. CASE SendRoot
    BY <1>7, Lines, SendsPlaced DEF SendRoot
  <1>8. CASE SendEmpty
    BY <1>8, Lines, SendsPlaced DEF SendEmpty
  <1>9. CASE SendCommand
    <2>1. pc = "send" /\ step \in Steps /\ 1 .. step - 1 \subseteq completed
      BY <1>9 DEF SendCommand, Sends, Scripted, Types, TypeOK
    <2>2. Command(step) # Command(1) => 1 \in completed
      BY <2>1 DEF Steps
    <2> QED
      BY <1>9, <2>1, <2>2, Lines, SendsPlaced DEF SendCommand
  <1>10. CASE SendPoweroff
    <2>1. 1 \in completed
      BY <1>10, <1>d DEF SendPoweroff, Sends, Scripted
    <2>2. Poweroff \notin {Root, EmptyLine}
      BY DEF Poweroff, Root, EmptyLine
    <2> QED
      BY <1>10, <2>1, <2>2, Lines, SendsPlaced DEF SendPoweroff
  <1>11. CASE Exited \/ Join \/ Check
    BY <1>11, <1>b, <1>c DEF Exited, Join, Check, Verdict, Placed
  <1>12. CASE Kill
    <2>1. CASE Wrapper
      BY <1>12, <2>1, <1>b, <1>c DEF Kill, Placed
    <2>2. CASE ~Wrapper
      BY <1>12, <2>2, <1>a DEF Kill, Lost, Gone
    <2> QED
      BY <2>1, <2>2
  <1>13. CASE GuestBoots
    <2>1. PasswordPrompt \in printed' => PasswordPrompt \in printed
      BY <1>13, PromptTokens DEF GuestBoots, Prints
    <2> QED
      BY <1>13, <1>c, <2>1 DEF GuestBoots, Read, OnlyEchoSwallowed, Placed, InShell, Lost, Gone
  <1>14. CASE GuestTakesName
    <2>1. Placed /\ input # << >> /\ input' = Tail(input) /\ guest = "login"
      BY <1>14, <1>c DEF GuestTakesName, Reads, Lost, Gone
    <2> QED
      BY <1>14, <2>1, ReadsPlaced
         DEF GuestTakesName, Read, OnlyEchoSwallowed, Placed, InShell
  <1>15. CASE GuestAsksPassword
    BY <1>15, <1>c DEF GuestAsksPassword, Prints, Read, OnlyEchoSwallowed, Placed, InShell,
                       Lost, Gone
  <1>16. CASE GuestLogsIn
    <2>1. CASE guest = "auth"
      BY <1>16, <1>c, <2>1 DEF GuestLogsIn, Read, OnlyEchoSwallowed, Placed, InShell, Lost, Gone
    <2>2. CASE guest = "passwd" /\ Reads(EmptyLine)
      <3>1. Placed /\ input # << >> /\ input' = Tail(input)
        BY <1>c, <2>2 DEF Reads, Lost, Gone
      <3> QED
        BY <1>16, <2>2, <3>1, ReadsPlaced
           DEF GuestLogsIn, Read, OnlyEchoSwallowed, Placed, InShell
    <2> QED
      BY <1>16, <2>1, <2>2 DEF GuestLogsIn
  <1>17. CASE GuestRefuses
    <2>1. Placed /\ input # << >> /\ input' = Tail(input) /\ guest = "passwd"
      BY <1>17, <1>c DEF GuestRefuses, Lost, Gone
    <2>2. Head(input) \in {EmptyLine, Command(1)}
      BY <2>1, ReadsPlaced DEF InShell
    <2> QED
      BY <1>17, <2>1, <2>2, ReadsPlaced
         DEF GuestRefuses, Read, OnlyEchoSwallowed, Placed, InShell
  <1>18. CASE GuestTakesOther
    <2>1. Placed /\ input # << >> /\ input' = Tail(input) /\ guest = "login" /\ Head(input) # Root
      BY <1>18, <1>c DEF GuestTakesOther, Lost, Gone
    <2>2. Head(input) = Command(1)
      BY <2>1, ReadsPlaced DEF InShell
    <2> QED
      BY <1>18, <2>1, <2>2, ReadsPlaced
         DEF GuestTakesOther, Read, OnlyEchoSwallowed, Placed, InShell
  <1>19. ASSUME NEW k \in Steps, GuestStarts(k) PROVE Read'
    <2>1. Placed /\ input # << >> /\ input' = Tail(input) /\ guest = "shell"
      BY <1>19, <1>c DEF GuestStarts, Reads, Lost, Gone
    <2> QED
      BY <1>19, <2>1, ReadsPlaced
         DEF GuestStarts, Read, OnlyEchoSwallowed, Placed, InShell
  <1>20. CASE GuestSucceeds \/ GuestFails
    <2>1. Placed /\ guest = "exec" /\ guest' = "shell" /\ UNCHANGED <<pc, input, swallowed>>
      BY <1>20, <1>c DEF GuestSucceeds, GuestFails, Lost, Gone
    <2> QED
      BY <2>1 DEF Read, OnlyEchoSwallowed, Placed, InShell
  <1>21. CASE GuestHalts
    <2>1. Placed /\ input # << >> /\ input' = Tail(input) /\ guest = "shell"
      BY <1>21, <1>c DEF GuestHalts, Reads, Lost, Gone
    <2> QED
      BY <1>21, <2>1, ReadsPlaced
         DEF GuestHalts, Read, OnlyEchoSwallowed, Placed, InShell
  <1>22. CASE VmExits \/ GuestPanics \/ GuestHangs
    BY <1>22, <1>a, <1>e DEF VmExits, Ends, GuestPanics, GuestHangs, Up, Lost, Gone
  <1>23. CASE WrapperExits
    BY <1>23, <1>0 DEF WrapperExits
  <1>24. CASE GuestGarbles
    <2>1. PasswordPrompt \in printed' => PasswordPrompt \in printed
      BY <1>24, PromptTokens DEF GuestGarbles, Prints
    <2> QED
      BY <1>24, <1>b, <1>c, <1>e, <2>1 DEF GuestGarbles, Placed
  <1>25. CASE UNCHANGED vars
    BY <1>25, <1>0 DEF vars
  <1> QED
    BY <1>1, <1>2, <1>3, <1>4, <1>5, <1>6, <1>7, <1>8, <1>9, <1>10, <1>11, <1>12, <1>13,
       <1>14, <1>15, <1>16, <1>17, <1>18, <1>19, <1>20, <1>21, <1>22, <1>23, <1>24, <1>25
       DEF Next, Driver, Machine, GuestProgress

\* However late the password prompt comes and whatever the guest says of the
\* password (ktest.rs:402-412), no program but a shell reads a mount, a kldload or
\* a poweroff: login sees the first echo at most, under any guest and any deadline.
THEOREM OnlyTheEchoIsLost == Spec => []OnlyEchoSwallowed
  <1>1. Init => Types /\ Heard /\ Scripted /\ Read
    BY InitTypes DEF Init, Heard, Scripted, Read, OnlyEchoSwallowed, Placed, InShell
  <1>2. Read => OnlyEchoSwallowed
    BY DEF Read
  <1> QED
    BY <1>1, <1>2, TypesInductive, HeardInductive, ScriptedInductive, ReadInductive,
       PTL DEF Spec
=============================================================================
