------------------------- MODULE SoundConsoleProofs -------------------------
(***************************************************************************)
(* Proofs about SoundConsole: the pots are protected whenever PreAmp_write *)
(* is not at work, an acknowledged gain stays in its pot, and of all that  *)
(* prints, only a change of setting fills the console under a USB handler. *)
(***************************************************************************)
EXTENDS SoundConsole, SequenceTheorems, TLAPS

(* Every channel has a potentiometer.                                      *)
LEMMA PotInPots == \A ch \in 0 .. 7 : PotOf(ch) \in Pots
<1> SUFFICES ASSUME NEW ch \in 0 .. 7 PROVE PotOf(ch) \in Pots
  OBVIOUS
<1>1. RdacTwiAddr(ch) \in 44 .. 47
  BY SMT DEF RdacTwiAddr
<1>2. Rdac1Or3(ch) \in {1, 3}
  BY DEF Rdac1Or3
<1> QED
  BY <1>1, <1>2, Zenon DEF PotOf, Pots

(* No two channels share a potentiometer (PreAmp.c:17-18).                 *)
THEOREM OnePotEach ==
  \A a, b \in 0 .. 7 : PotOf(a) = PotOf(b) => a = b
<1> SUFFICES ASSUME NEW a \in 0 .. 7, NEW b \in 0 .. 7, PotOf(a) = PotOf(b)
             PROVE  a = b
  BY Zenon
<1>1. RdacTwiAddr(a) = RdacTwiAddr(b) /\ Rdac1Or3(a) = Rdac1Or3(b)
  BY Zenon DEF PotOf
<1>2. a \div 2 = b \div 2
  BY <1>1, SMT DEF RdacTwiAddr
<1>3. a % 2 = b % 2
  BY <1>1, SMT DEF Rdac1Or3
<1> QED
  BY <1>2, <1>3, SMT

LEMMA InputRange == \A ch \in Inputs : ch \in 0 .. 7
<1>1. NbInputs \in Int /\ NbInputs <= 8
  BY InputsAssumption, SMT
<1> QED
  BY <1>1, SMT DEF Inputs

-----------------------------------------------------------------------------
(* The program is made of steps.                                           *)

Ops == {"sio", "print", "init", "write", "read", "getc"}

LEMMA InputsFacts == NbInputs \in Nat /\ NbInputs >= 1 /\ 0 \in Inputs
<1>1. NbInputs \in Nat /\ NbInputs >= 1
  BY InputsAssumption, SMT
<1> QED
  BY <1>1, SMT DEF Inputs

LEMMA StepIsStep ==
  ASSUME NEW op \in Ops, NEW ch \in Inputs, NEW gain \in Gains
  PROVE  Step(op, ch, gain) \in Steps
  BY DEF Step, Steps, Ops

LEMMA DoIsStep == \A op \in Ops : Do(op) \in Steps
  BY InputsFacts, StepIsStep, Zenon DEF Do, Gains

LEMMA PartsAreSteps ==
  /\ SetUpAmps \in Seq(Steps) /\ Len(SetUpAmps) = 3
  /\ ReadBack \in Seq(Steps) /\ Len(ReadBack) = 2
  /\ StartGains \in Seq(Steps) /\ Len(StartGains) = NbInputs
<1>1. Do("print") \in Steps /\ Do("init") \in Steps
  BY DoIsStep, Zenon DEF Ops
<1>2. Do("read") \in Steps
  BY DoIsStep, Zenon DEF Ops
<1>3. SetUpAmps \in Seq(Steps) /\ Len(SetUpAmps) = 3
  BY <1>1 DEF SetUpAmps
<1>4. ReadBack \in Seq(Steps) /\ Len(ReadBack) = 2
  BY <1>1, <1>2 DEF ReadBack
<1>5. \A i \in 1 .. NbInputs : Step("write", i - 1, StartGain) \in Steps
  <2> SUFFICES ASSUME NEW i \in 1 .. NbInputs
               PROVE  Step("write", i - 1, StartGain) \in Steps
    BY Zenon
  <2>1. i - 1 \in Inputs
    BY InputsFacts, SMT DEF Inputs
  <2> QED
    BY <2>1, StepIsStep, Zenon DEF Ops, Gains
<1>6. StartGains \in [1 .. NbInputs -> Steps]
  BY <1>5, Zenon DEF StartGains
<1>7. StartGains \in Seq(Steps) /\ Len(StartGains) = NbInputs
  BY <1>6, InputsFacts, SMT
<1> QED
  BY <1>3, <1>4, <1>7

LEMMA Joined ==
  ASSUME NEW s \in Seq(Steps), NEW t \in Seq(Steps)
  PROVE  /\ s \o t \in Seq(Steps)
         /\ Len(s \o t) = Len(s) + Len(t)
         /\ \A i \in 1 .. Len(s) : (s \o t)[i] = s[i]
         /\ \A i \in 1 .. Len(t) : (s \o t)[Len(s) + i] = t[i]
<1>1. Len(s) \in Nat /\ Len(t) \in Nat
  BY LenProperties, Zenon
<1> DEFINE u == s \o t
<1>2. /\ u \in Seq(Steps) /\ Len(u) = Len(s) + Len(t)
      /\ \A i \in 1 .. Len(s) + Len(t) : u[i] = IF i <= Len(s) THEN s[i] ELSE t[i - Len(s)]
  BY ConcatProperties, Zenon
<1> HIDE DEF u
<1>3. \A i \in 1 .. Len(s) : u[i] = s[i]
  BY <1>1, <1>2, SMT
<1>4. \A i \in 1 .. Len(t) : u[Len(s) + i] = t[i]
  BY <1>1, <1>2, SMT
<1> QED
  BY <1>2, <1>3, <1>4 DEF u

LEMMA BootIsSteps ==
  /\ Boot \in Seq(Steps) /\ Len(Boot) = NbInputs + 6
  /\ Boot[1] = Do("sio") /\ Boot[2] = Do("print") /\ Boot[3] = Do("init")
<1> DEFINE s1 == <<Do("sio")>>
           s2 == s1 \o SetUpAmps
           s3 == s2 \o StartGains
<1>1. s1 \in Seq(Steps) /\ Len(s1) = 1 /\ s1[1] = Do("sio")
  BY DoIsStep DEF Ops
<1>a. SetUpAmps[1] = Do("print") /\ SetUpAmps[2] = Do("init")
  BY DEF SetUpAmps
<1> HIDE DEF s1
<1>2. s2 \in Seq(Steps) /\ Len(s2) = 4 /\ s2[1] = s1[1]
      /\ s2[2] = SetUpAmps[1] /\ s2[3] = SetUpAmps[2]
  <2>1. /\ s2 \in Seq(Steps) /\ Len(s2) = Len(s1) + Len(SetUpAmps)
        /\ \A i \in 1 .. Len(s1) : s2[i] = s1[i]
        /\ \A i \in 1 .. Len(SetUpAmps) : s2[Len(s1) + i] = SetUpAmps[i]
    BY <1>1, PartsAreSteps, Joined, Zenon
  <2> HIDE DEF s2
  <2> QED
    BY <1>1, <2>1, PartsAreSteps, SMT
<1> HIDE DEF s2
<1>3. s3 \in Seq(Steps) /\ Len(s3) = NbInputs + 4
      /\ s3[1] = s2[1] /\ s3[2] = s2[2] /\ s3[3] = s2[3]
  <2>1. /\ s3 \in Seq(Steps) /\ Len(s3) = Len(s2) + Len(StartGains)
        /\ \A i \in 1 .. Len(s2) : s3[i] = s2[i]
    BY <1>2, PartsAreSteps, Joined, Zenon
  <2> HIDE DEF s3
  <2> QED
    BY <1>2, <2>1, PartsAreSteps, InputsFacts, SMT
<1> HIDE DEF s3
<1> DEFINE s4 == s3 \o ReadBack
<1>4. s4 \in Seq(Steps) /\ Len(s4) = NbInputs + 6
      /\ s4[1] = s3[1] /\ s4[2] = s3[2] /\ s4[3] = s3[3]
  <2>1. /\ s4 \in Seq(Steps) /\ Len(s4) = Len(s3) + Len(ReadBack)
        /\ \A i \in 1 .. Len(s3) : s4[i] = s3[i]
    BY <1>3, PartsAreSteps, Joined, Zenon
  <2> HIDE DEF s4
  <2> QED
    BY <1>3, <2>1, PartsAreSteps, InputsFacts, SMT
<1>5. Boot = s4
  BY DEF Boot, s4, s3, s2, s1
<1> QED
  BY <1>1, <1>a, <1>2, <1>3, <1>4, <1>5

LEMMA CommandIsSteps == \A key : Command(key) \in Seq(Steps)
<1> SUFFICES ASSUME NEW key PROVE Command(key) \in Seq(Steps)
  BY Zenon
<1>1. Do("print") \in Steps
  BY DoIsStep, Zenon DEF Ops
<1>2. <<Do("print")>> \in Seq(Steps) /\ <<Do("print"), Do("print")>> \in Seq(Steps)
  BY <1>1
<1>3. <<>> \in Seq(Steps)
  BY EmptySeq, Zenon
<1>4. Step("write", 0, TestGain) \in Steps
  BY InputsFacts, StepIsStep, Zenon DEF Ops, Gains
<1>5. <<Step("write", 0, TestGain)>> \in Seq(Steps)
  BY <1>4
<1>6. SetUpAmps \o <<Step("write", 0, TestGain)>> \in Seq(Steps)
  BY <1>5, PartsAreSteps, ConcatProperties, Zenon
<1>7. SetUpAmps \o <<Step("write", 0, TestGain)>> \o ReadBack \in Seq(Steps)
  BY <1>6, PartsAreSteps, ConcatProperties, Zenon
<1> QED
  BY <1>2, <1>3, <1>7 DEF Command

-----------------------------------------------------------------------------
(* The invariant: while a write is at work the pots are open, and whenever *)
(* none is, they are protected or the start-up has not come to PreAmp_Init.*)

Early == {Boot, Tail(Boot), Tail(Tail(Boot))}

MainInv ==
  /\ todo \in Seq(Steps)
  /\ phase \in {"start", "transfer", "protect"}
  /\ protected \in BOOLEAN
  /\ phase # "start" => ~protected /\ todo # <<>> /\ Head(todo).op = "write"
  /\ phase = "start" => protected \/ todo \in Early

AmpInv ==
  /\ pots \in [Pots -> Gains]
  /\ accepted \in [Inputs -> Gains]
  /\ GainsStay

LEMMA HeadAndTail ==
  ASSUME todo \in Seq(Steps), todo # <<>>
  PROVE  Head(todo) \in Steps /\ Tail(todo) \in Seq(Steps) /\ Len(Tail(todo)) = Len(todo) - 1
  BY HeadTailProperties, Zenon

LEMMA HeadIsFirst == ASSUME NEW s \in Seq(Steps), s # <<>> PROVE Head(s) = s[1]
  OBVIOUS

(* The start-up's first three sequences of steps, by length and head.      *)
LEMMA EarlyFacts ==
  /\ Len(Boot) = NbInputs + 6 /\ Boot # <<>> /\ Head(Boot).op = "sio"
  /\ Len(Tail(Boot)) = NbInputs + 5 /\ Tail(Boot) # <<>> /\ Head(Tail(Boot)).op = "print"
  /\ Len(Tail(Tail(Boot))) = NbInputs + 4 /\ Tail(Tail(Boot)) # <<>>
  /\ Head(Tail(Tail(Boot))).op = "init"
<1> DEFINE t1 == Tail(Boot)
           t2 == Tail(t1)
<1>1. /\ Boot \in Seq(Steps) /\ Len(Boot) = NbInputs + 6 /\ Boot # <<>>
      /\ Head(Boot) = Do("sio")
  <2>1. Len(Boot) # 0
    BY BootIsSteps, InputsFacts, SMT
  <2>2. Boot # <<>>
    BY <2>1, BootIsSteps, EmptySeq, Zenon
  <2>3. Head(Boot) = Boot[1]
    BY <2>2, BootIsSteps, HeadIsFirst
  <2> QED
    BY <2>2, <2>3, BootIsSteps
<1>2. /\ t1 \in Seq(Steps) /\ Len(t1) = NbInputs + 5 /\ t1 # <<>>
      /\ t1[1] = Do("print") /\ t1[2] = Do("init")
  <2>1. /\ t1 \in Seq(Steps) /\ Len(t1) = Len(Boot) - 1
        /\ \A i \in 1 .. Len(t1) : t1[i] = Boot[i + 1]
    BY <1>1, HeadTailProperties, Zenon
  <2> HIDE DEF t1
  <2>2. Len(t1) = NbInputs + 5
    BY <1>1, <2>1, InputsFacts, SMT
  <2>3. t1[1] = Boot[2] /\ t1[2] = Boot[3] /\ Len(t1) # 0
    BY <2>1, <2>2, InputsFacts, SMT
  <2>4. t1 # <<>>
    BY <2>1, <2>3, EmptySeq, Zenon
  <2> QED
    BY <2>1, <2>2, <2>3, <2>4, BootIsSteps
<1> HIDE DEF t1
<1>3. Head(t1) = Do("print")
  BY <1>2, HeadIsFirst
<1>4. Len(t2) = NbInputs + 4 /\ t2 # <<>> /\ Head(t2) = Do("init")
  <2>1. /\ t2 \in Seq(Steps) /\ Len(t2) = Len(t1) - 1
        /\ \A i \in 1 .. Len(t2) : t2[i] = t1[i + 1]
    BY <1>2, HeadTailProperties, Zenon
  <2> HIDE DEF t2
  <2>2. Len(t2) = NbInputs + 4
    BY <1>2, <2>1, InputsFacts, SMT
  <2>3. t2[1] = t1[2] /\ Len(t2) # 0
    BY <2>1, <2>2, InputsFacts, SMT
  <2>4. t2 # <<>>
    BY <2>1, <2>3, EmptySeq, Zenon
  <2>5. Head(t2) = t2[1]
    BY <2>1, <2>4, HeadIsFirst
  <2> QED
    BY <1>2, <2>2, <2>3, <2>4, <2>5
<1>5. Do("sio").op = "sio" /\ Do("print").op = "print" /\ Do("init").op = "init"
  BY DEF Do, Step
<1> QED
  BY <1>1, <1>2, <1>3, <1>4, <1>5 DEF t1, t2

-----------------------------------------------------------------------------
LEMMA InitMainInv == SoundInit => MainInv
  BY BootIsSteps DEF SoundInit, AmpInit, MainInv, Early

(* What a step of main that is not part of PreAmp_write does to todo: its  *)
(* head goes, and if the pots were not protected, the head was an early one*)
LEMMA DoneKeepsMainInv ==
  ASSUME MainInv, NEW op \in Ops \ {"write", "init"}, Due(op), Done, protected' = protected
  PROVE  MainInv'
<1>1. todo \in Seq(Steps) /\ todo # <<>> /\ Head(todo).op = op
  BY DEF MainInv, Due
<1>2. todo' \in Seq(Steps)
  BY <1>1, HeadAndTail DEF Done
<1>3. phase = "start" /\ phase' = "start"
  BY <1>1 DEF MainInv, Done, Ops
<1>4. protected \/ todo' \in Early
  BY <1>1, <1>3, EarlyFacts DEF MainInv, Done, Early, Ops
<1> QED
  BY <1>2, <1>3, <1>4 DEF MainInv

LEMMA NextMainInv == MainInv /\ [SoundNext]_soundVars => MainInv'
<1> SUFFICES ASSUME MainInv, [SoundNext]_soundVars PROVE MainInv'
  OBVIOUS
<1> DEFINE same == UNCHANGED <<protected, todo, phase>>
<1>0. ASSUME same PROVE MainInv'
  BY <1>0 DEF MainInv
<1>1. CASE SioInit
  BY <1>1, DoneKeepsMainInv DEF SioInit, ampVars, Ops
<1>2. CASE Printf
  BY <1>2, DoneKeepsMainInv DEF Printf, ampVars, Ops
<1>3. CASE ReadGain
  BY <1>3, DoneKeepsMainInv DEF ReadGain, ampVars, Ops
<1>4. CASE InitAmps
  <2>1. todo \in Seq(Steps) /\ todo # <<>> /\ Head(todo).op = "init"
    BY <1>4 DEF MainInv, InitAmps, Due
  <2>2. todo' \in Seq(Steps)
    BY <1>4, <2>1, HeadAndTail DEF InitAmps, Done
  <2>3. phase' = "start" /\ protected' = TRUE
    BY <1>4, <2>1 DEF MainInv, InitAmps, Done, PreAmp_Init
  <2> QED
    BY <2>2, <2>3 DEF MainInv
<1>5. CASE WriteUnprotect
  BY <1>5 DEF WriteUnprotect, Unprotect, Due, MainInv
<1>6. CASE WriteTransfer
  BY <1>6 DEF WriteTransfer, Transfer, Due, MainInv
<1>7. CASE WriteProtect
  <2>1. todo \in Seq(Steps) /\ todo # <<>>
    BY <1>7 DEF MainInv, WriteProtect, Due
  <2>2. todo' \in Seq(Steps)
    BY <1>7, <2>1, HeadAndTail DEF WriteProtect
  <2> QED
    BY <1>7, <2>2 DEF WriteProtect, Protect, MainInv
<1>8. CASE PollConsole
  <2>1. Do("getc") \in Steps
    BY DoIsStep, Zenon DEF Ops
  <2>2. todo' \in Seq(Steps)
    BY <1>8, <2>1 DEF PollConsole
  <2>3. phase = "start" /\ todo \notin Early
    BY <1>8, EarlyFacts DEF PollConsole, MainInv, Early
  <2> QED
    BY <1>8, <2>2, <2>3 DEF PollConsole, MainInv, ampVars
<1>9. CASE GetChar
  <2>1. todo # <<>> /\ Head(todo).op = "getc"
    BY <1>9 DEF GetChar, Due
  <2>2. phase = "start" /\ todo \notin Early
    BY <2>1, EarlyFacts DEF MainInv, Early
  <2>3. todo' \in Seq(Steps)
    BY <1>9, CommandIsSteps, EmptySeq, Zenon DEF GetChar
  <2> QED
    BY <1>9, <2>2, <2>3 DEF GetChar, MainInv, ampVars
<1>10. CASE PutChar
  BY <1>10, <1>0 DEF PutChar, ampVars
<1>11. CASE IrqPutChar \/ TxDone \/ Configure \/ SelectAlt \/ BusReset \/ HostComesOrGoes
  BY <1>11, <1>0
     DEF IrqPutChar, TxDone, Configure, SelectAlt, BusReset, HostComesOrGoes, ampVars, mainVars
<1>12. ASSUME NEW key \in Keys, RxChar(key) PROVE MainInv'
  BY <1>12, <1>0 DEF RxChar, ampVars, mainVars
<1>13. CASE UNCHANGED soundVars
  BY <1>13, <1>0 DEF soundVars, ampVars, mainVars
<1> QED
  BY <1>1, <1>2, <1>3, <1>4, <1>5, <1>6, <1>7, <1>8, <1>9, <1>10, <1>11, <1>12, <1>13
     DEF SoundNext, Main

LEMMA InvariantMain == SoundSpec => []MainInv
<1> QED
  BY InitMainInv, NextMainInv, PTL DEF SoundSpec

(* The pots are write-protected whenever the start-up is past PreAmp_Init  *)
(* and no PreAmp_write is at work, whatever failed (PreAmp.c:70-90).       *)
THEOREM SoundProtectedAtRest == SoundSpec => []ProtectedAtRest
<1>1. MainInv => ProtectedAtRest
  <2> SUFFICES ASSUME MainInv, phase = "start", Len(todo) <= NbInputs + 3
               PROVE  protected
    BY Zenon DEF ProtectedAtRest, AmpsUp
  <2>1. \A t \in Early : Len(t) >= NbInputs + 4
    BY EarlyFacts, InputsFacts DEF Early
  <2>2. todo \notin Early
    BY <2>1, InputsFacts, SMT
  <2> QED
    BY <2>2, Zenon DEF MainInv
<1> QED
  BY <1>1, InvariantMain, PTL

-----------------------------------------------------------------------------
LEMMA InitAmpInv == SoundInit => AmpInv
  BY DEF SoundInit, AmpInit, AmpInv, GainsStay, Gains, NoGain

LEMMA TransferKeepsAmpInv ==
  ASSUME AmpInv, ~protected, NEW ch \in Inputs, NEW gain \in Gains, Transfer(ch, gain)
  PROVE  AmpInv'
<1> DEFINE written == [pots EXCEPT ![PotOf(ch)] = gain]
<1>1. PotOf(ch) \in Pots /\ \A c \in Inputs : PotOf(c) \in Pots
  BY InputRange, PotInPots, Zenon
<1>2. \A c \in Inputs : PotOf(c) = PotOf(ch) => c = ch
  BY InputRange, OnePotEach, Zenon
<1>3. /\ written \in [Pots -> Gains]
      /\ written[PotOf(ch)] = gain
      /\ \A c \in Inputs \ {ch} : written[PotOf(c)] = pots[PotOf(c)]
  <2> HIDE DEF Pots, PotOf, Gains
  <2> QED
    BY <1>1, <1>2 DEF AmpInv
<1>4. \/ pots' = written /\ accepted' = [accepted EXCEPT ![ch] = gain]
      \/ pots' \in {pots, written} /\ accepted' = [accepted EXCEPT ![ch] = NoGain]
  BY DEF Transfer
<1>5. pots' \in [Pots -> Gains]
  BY <1>3, <1>4, Zenon DEF AmpInv
<1>6. accepted' \in [Inputs -> Gains]
  <2>1. NoGain \in Gains
    BY Zenon DEF Gains
  <2> QED
    BY <1>4, <2>1, Zenon DEF AmpInv
<1>7. \A c \in Inputs \ {ch} : accepted'[c] = accepted[c] /\ pots'[PotOf(c)] = pots[PotOf(c)]
  <2> HIDE DEF written
  <2> QED
    BY <1>3, <1>4, Zenon DEF AmpInv
<1>8. accepted'[ch] # NoGain => pots'[PotOf(ch)] = accepted'[ch]
  <2> HIDE DEF written
  <2> QED
    BY <1>3, <1>4, Zenon DEF AmpInv
<1>9. GainsStay'
  BY <1>7, <1>8, Zenon DEF AmpInv, GainsStay
<1> QED
  BY <1>5, <1>6, <1>9, Zenon DEF AmpInv

LEMMA NextAmpInv == MainInv /\ AmpInv /\ [SoundNext]_soundVars => AmpInv'
<1> SUFFICES ASSUME MainInv, AmpInv, [SoundNext]_soundVars PROVE AmpInv'
  OBVIOUS
<1>0. ASSUME UNCHANGED <<pots, accepted>> PROVE AmpInv'
  BY <1>0, Zenon DEF AmpInv, GainsStay
<1>1. CASE SioInit \/ Printf \/ InitAmps \/ ReadGain
  BY <1>0, <1>1 DEF SioInit, Printf, InitAmps, PreAmp_Init, ReadGain, ampVars
<1>2. CASE WriteUnprotect \/ WriteProtect
  BY <1>0, <1>2 DEF WriteUnprotect, Unprotect, WriteProtect, Protect
<1>3. CASE WriteTransfer
  <2>1. Head(todo) \in Steps
    BY <1>3, HeadAndTail, Zenon DEF WriteTransfer, Due, MainInv
  <2>2. Head(todo).ch \in Inputs /\ Head(todo).gain \in Gains
    BY <2>1 DEF Steps
  <2> QED
    BY <1>3, <2>2, TransferKeepsAmpInv, Zenon DEF WriteTransfer, MainInv
<1>4. CASE PollConsole \/ GetChar \/ PutChar
  BY <1>0, <1>4 DEF PollConsole, GetChar, PutChar, ampVars
<1>5. CASE IrqPutChar \/ TxDone \/ Configure \/ SelectAlt \/ BusReset \/ HostComesOrGoes
  BY <1>0, <1>5
     DEF IrqPutChar, TxDone, Configure, SelectAlt, BusReset, HostComesOrGoes, ampVars
<1>6. ASSUME NEW key \in Keys, RxChar(key) PROVE AmpInv'
  BY <1>0, <1>6 DEF RxChar, ampVars
<1>7. CASE UNCHANGED soundVars
  BY <1>0, <1>7 DEF soundVars, ampVars
<1> QED
  BY <1>1, <1>2, <1>3, <1>4, <1>5, <1>6, <1>7 DEF SoundNext, Main

(* A gain that was acknowledged stays in its channel's potentiometer,      *)
(* whatever is written to the other channels (PreAmp.c:17-18, 52-54, 70).  *)
THEOREM SoundGainsStay == SoundSpec => []GainsStay
<1>1. AmpInv => GainsStay
  BY DEF AmpInv
<1> QED
  BY <1>1, InitAmpInv, NextAmpInv, InvariantMain, PTL DEF SoundSpec

-----------------------------------------------------------------------------
(* Types: MainInv and AmpInv have those of todo, phase and the pots.       *)

ConsoleTypes ==
  /\ left \in 0 .. MainMessage
  /\ usb \in {"off", "up", "configured"}
  /\ tx \in 0 .. TxRoom
  /\ rx \in Keys \cup {None}
  /\ irqLeft \in 0 .. 2 * IrqMessage
  /\ hostReads \in BOOLEAN

LEMMA MessageSizes ==
  /\ TxRoom \in Nat /\ 0 \in 0 .. TxRoom
  /\ 0 \in 0 .. MainMessage /\ 1 \in 0 .. MainMessage /\ MainMessage \in 0 .. MainMessage
  /\ 0 \in 0 .. 2 * IrqMessage /\ IrqMessage \in 0 .. 2 * IrqMessage
  /\ 2 * IrqMessage \in 0 .. 2 * IrqMessage
  BY ConsoleAssumption, SMT

LEMMA InitConsoleTypes == SoundInit => ConsoleTypes
  BY MessageSizes DEF SoundInit, ConsoleTypes

(* A character that goes into the console has found room.                  *)
LEMMA RoomForOne == ASSUME ConsoleTypes, Room, PutInTx PROVE tx' \in 0 .. TxRoom
<1>1. CASE usb = "configured"
  <2>1. tx < TxRoom /\ tx' = tx + 1
    BY <1>1, Zenon DEF Room, PutInTx
  <2> QED
    BY <2>1, MessageSizes, SMT DEF ConsoleTypes
<1>2. CASE usb # "configured"
  BY <1>2, Zenon DEF PutInTx, ConsoleTypes
<1> QED
  BY <1>1, <1>2

LEMMA NextConsoleTypes == ConsoleTypes /\ [SoundNext]_soundVars => ConsoleTypes'
<1> SUFFICES ASSUME ConsoleTypes, [SoundNext]_soundVars PROVE ConsoleTypes'
  OBVIOUS
<1> USE DEF usbVars, mainVars
<1>1. CASE SioInit \/ Printf \/ InitAmps \/ ReadGain
  BY <1>1, MessageSizes, Zenon DEF SioInit, Printf, InitAmps, ReadGain, ConsoleTypes
<1>2. CASE WriteUnprotect \/ WriteTransfer \/ WriteProtect \/ PollConsole
  BY <1>2, MessageSizes, Zenon
     DEF WriteUnprotect, WriteTransfer, WriteProtect, PollConsole, ConsoleTypes
<1>3. CASE GetChar
  <2>1. rx' \in Keys \cup {None}
    BY <1>3, Zenon DEF GetChar, ConsoleTypes
  <2> QED
    BY <1>3, <2>1, MessageSizes, Zenon DEF GetChar, ConsoleTypes
<1>4. CASE PutChar
  <2>1. tx' \in 0 .. TxRoom
    BY <1>4, RoomForOne, Zenon DEF PutChar
  <2>2. left' \in 0 .. MainMessage
    BY <1>4, ConsoleAssumption, SMT DEF PutChar, ConsoleTypes
  <2> QED
    BY <1>4, <2>1, <2>2, Zenon DEF PutChar, ConsoleTypes
<1>5. CASE IrqPutChar
  <2>1. tx' \in 0 .. TxRoom
    BY <1>5, RoomForOne, Zenon DEF IrqPutChar
  <2>2. irqLeft' \in 0 .. 2 * IrqMessage
    BY <1>5, ConsoleAssumption, SMT DEF IrqPutChar, ConsoleTypes
  <2> QED
    BY <1>5, <2>1, <2>2, Zenon DEF IrqPutChar, ConsoleTypes
<1>6. CASE TxDone
  BY <1>6, MessageSizes, Zenon DEF TxDone, ConsoleTypes
<1>7. CASE Configure
  BY <1>7, MessageSizes, Zenon DEF Configure, ConsoleTypes
<1>8. CASE SelectAlt \/ BusReset
  BY <1>8, MessageSizes, Zenon DEF SelectAlt, BusReset, ConsoleTypes
<1>9. CASE HostComesOrGoes
  <2>1. hostReads' \in BOOLEAN
    BY <1>9, Zenon DEF HostComesOrGoes
  <2> QED
    BY <1>9, <2>1, Zenon DEF HostComesOrGoes, ConsoleTypes
<1>10. ASSUME NEW key \in Keys, RxChar(key) PROVE ConsoleTypes'
  BY <1>10, Zenon DEF RxChar, ConsoleTypes
<1>11. CASE UNCHANGED soundVars
  BY <1>11, Zenon DEF soundVars, ConsoleTypes
<1> QED
  BY <1>1, <1>2, <1>3, <1>4, <1>5, <1>6, <1>7, <1>8, <1>9, <1>10, <1>11, Zenon
     DEF SoundNext, Main

(* The console never holds more than it has room for, and no message is    *)
(* counted below nothing, for any sizes (main.c:37-109, udi_audio.c:63).   *)
THEOREM SoundTypeCorrect == SoundSpec => []SoundTypeOK
<1>1. MainInv /\ AmpInv /\ ConsoleTypes => SoundTypeOK
  BY Zenon DEF MainInv, AmpInv, ConsoleTypes, SoundTypeOK, AmpTypeOK
<1> QED
  BY <1>1, InitMainInv, NextMainInv, InitAmpInv, NextAmpInv, InitConsoleTypes,
     NextConsoleTypes, PTL DEF SoundSpec

-----------------------------------------------------------------------------
(* What a running handler has still to print fits into the console.        *)
Fits == (usb = "configured" /\ irqLeft # 0) => tx + irqLeft <= TxRoom

LEMMA FitsStep ==
  ASSUME IrqMessage <= TxRoom, ConsoleTypes, Fits, [SoundNext]_soundVars,
         SelectAlt => tx + 2 * IrqMessage <= TxRoom
  PROVE  Fits'
<1>1. /\ tx \in Nat /\ irqLeft \in Nat /\ TxRoom \in Nat
      /\ IrqMessage \in Nat /\ IrqMessage # 0
  BY ConsoleAssumption, SMT DEF ConsoleTypes
<1>2. CASE Main
  <2>1. irqLeft = 0 /\ UNCHANGED irqLeft
    BY <1>2, Zenon
       DEF Main, SioInit, Printf, InitAmps, ReadGain, WriteUnprotect, WriteTransfer,
           WriteProtect, PollConsole, GetChar, PutChar, usbVars
  <2> QED
    BY <2>1 DEF Fits
<1>3. CASE IrqPutChar
  <2>1. /\ irqLeft' = irqLeft - 1 /\ usb' = usb /\ irqLeft # 0
        /\ usb = "configured" => tx' = tx + 1
    BY <1>1, <1>3, SMT DEF IrqPutChar, PutInTx
  <2> QED
    BY <1>1, <2>1, SMT DEF Fits
<1>4. CASE Configure
  BY <1>1, <1>4, SMT DEF Configure, Fits
<1>5. CASE SelectAlt
  BY <1>1, <1>5, SMT DEF SelectAlt, Fits
<1>6. CASE BusReset
  BY <1>6, Zenon DEF BusReset, Fits
<1>7. CASE TxDone \/ (\E key \in Keys : RxChar(key))
  <2>1. irqLeft = 0 /\ UNCHANGED irqLeft
    BY <1>7, Zenon DEF TxDone, RxChar, UsbEvent
  <2> QED
    BY <2>1 DEF Fits
<1>8. CASE HostComesOrGoes \/ UNCHANGED soundVars
  <2>1. UNCHANGED <<usb, tx, irqLeft>>
    BY <1>8, Zenon DEF HostComesOrGoes, soundVars, usbVars
  <2> QED
    BY <2>1 DEF Fits
<1> QED
  BY <1>2, <1>3, <1>4, <1>5, <1>6, <1>7, <1>8, Zenon DEF SoundNext

(* What it takes to get there: a message longer than the console, or a     *)
(* change of setting that does not find room for the two messages it       *)
(* prints (udi_audio.c:63, 70).  Nothing else stops the board.             *)
THEOREM OnlyFullConsoleWedges ==
  ASSUME IrqMessage <= TxRoom
  PROVE  SoundSpec /\ [][SelectAlt => tx + 2 * IrqMessage <= TxRoom]_soundVars => []~Wedged
<1>1. SoundInit => Fits
  BY SMT DEF SoundInit, Fits
<1>2. ConsoleTypes /\ Fits /\ [SoundNext]_soundVars
        /\ [SelectAlt => tx + 2 * IrqMessage <= TxRoom]_soundVars => Fits'
  <2> SUFFICES ASSUME ConsoleTypes, Fits, [SoundNext]_soundVars,
                      [SelectAlt => tx + 2 * IrqMessage <= TxRoom]_soundVars
               PROVE  Fits'
    OBVIOUS
  <2>1. CASE SelectAlt => tx + 2 * IrqMessage <= TxRoom
    BY <2>1, FitsStep
  <2>2. CASE UNCHANGED soundVars
    <3>1. UNCHANGED <<usb, tx, irqLeft>>
      BY <2>2, Zenon DEF soundVars, usbVars
    <3> QED
      BY <3>1 DEF Fits
  <2> QED
    BY <2>1, <2>2
<1>3. ConsoleTypes /\ Fits => ~Wedged
  BY ConsoleAssumption, SMT DEF ConsoleTypes, Fits, Wedged
<1> QED
  BY <1>1, <1>2, <1>3, InitConsoleTypes, NextConsoleTypes, PTL DEF SoundSpec
=============================================================================
