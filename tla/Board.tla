------------------------------- MODULE Board -------------------------------
(***************************************************************************)
(* The radio board: the main thread's commands, the LMX2820 driver with    *)
(* its shadow registers, the LTC2668 driver, and the two chips behind the  *)
(* request thread of HwRequest.                                            *)
(*                                                                         *)
(* The driver keeps a copy of every register and a set of dirty ones.  A   *)
(* command changes copies, and program() sends the dirty registers, the    *)
(* highest number first: R0, which calibrates the VCO, goes last.          *)
(* Registers that are always set together stand as one.                    *)
(***************************************************************************)
EXTENDS HwRequest, Rational, FiniteSets

CONSTANTS Frequencies,      \* what tune() makes of a frequency: the output
                            \* MUX, the VCO core, the divider n and its
                            \* fractional part d
          Powers,           \* output powers
          Volts,            \* voltages of a DAC channel
          Stored,           \* those the configuration store may hold
          Noise,            \* a value no command sets
          MaxCommands,      \* bound: commands after the settings are restored
          MaxFailures       \* bound: transfers that fail on the bus

\* R0, R22 (VCO), R36 to R43 (PLL), R78 (MUX) and R79 (PWR), in that order.
R0 == 0
VCO == 1
PLL == 2
MUX == 3
PWR == 4
Regs == R0 .. PWR
\* The addresses of the DAC: two channels, and the span of all of them.
I == 5
Q == 6
SPAN == 7
Channels == {I, Q}

Whole == [num |-> 0, den |-> 1000]    \* no fractional part
R0Values == [fcal : {"off", "on"}, powerdown : {"off", "on"}]
Cores == {"none", "low", "high"}      \* vco_sel and vco_capctl
Outputs == {"divider", "direct", "doubler"}
PllValues == [n : Nat, frac : Fraction]

ASSUME BoardAssumption ==
  /\ MaxCommands \in Nat /\ MaxFailures \in Nat
  /\ Stored \subseteq Volts /\ Powers \subseteq Nat
  /\ Frequencies \subseteq [mux : Outputs, core : Cores, n : Nat, d : Fraction]
  /\ \A f \in Frequencies : f.d.num < f.d.den

SpanWord == [at |-> SPAN, val |-> Noise]

VARIABLES regs, dirty,      \* LMX2820::regs, dirty
          volt,             \* i_voltage and q_voltage
          pc,               \* of the main thread
          cursor,           \* i of program(), or the register being read
          channel,          \* n of setV()
          restoring,        \* what is left of restore_settings()
          chip,             \* registers of the LMX2820
          calibrated,       \* its VCO and PLL registers when it last calibrated
          dac,              \* voltages of the DAC channels
          failed,           \* history: what the last transfer failed for
          suspect,          \* history: whether a transfer failed or a register
                            \* was read since the registers were last all sent
          commands, failures
driver == <<regs, dirty, volt>>
place == <<pc, cursor, channel, restoring>>
chips == <<chip, calibrated, dac, failed>>
vars == <<hwVars, searchVars, driver, place, chips, suspect, commands, failures>>

Init ==
  /\ HwInit /\ SearchInit
  /\ regs = [r \in Regs |->
               CASE r = R0 -> [fcal |-> "off", powerdown |-> "off"]
                 [] r = VCO -> "none"
                 [] r = PLL -> [n |-> 0, frac |-> None]
                 [] r = MUX -> "divider"
                 [] r = PWR -> 0]
  /\ dirty = {}
  /\ volt \in [Channels -> Stored]
  /\ pc = "span" /\ cursor = PWR + 1 /\ channel = I /\ restoring = "Q"
  /\ chip = [r \in Regs |-> Noise] /\ calibrated = <<Noise, Noise>>
  /\ dac = [c \in Channels |-> Noise]
  /\ failed = {} /\ suspect = "no"
  /\ commands = 0 /\ failures = 0

-----------------------------------------------------------------------------
(* The requests of the main thread.                                        *)

RegWord(r) == [at |-> r, val |-> regs[r]]
DacWord(c) == [at |-> c, val |-> volt[c]]

\* i of the loop of program(): the highest dirty register not yet passed.
DirtyBelow == {r \in dirty : r < cursor}
Highest(S) == CHOOSE r \in S : \A s \in S : s <= r

Program ==
  /\ pc = "program" /\ stage = "none"
  /\ IF DirtyBelow # {}
       THEN LET r == Highest(DirtyBelow) IN
            /\ Allocate(RegWord(r), "wait")
            /\ cursor' = r /\ UNCHANGED pc
       ELSE pc' = "idle" /\ cursor' = PWR + 1 /\ UNCHANGED hwVars
  /\ UNCHANGED <<searchVars, driver, channel, restoring, chips, suspect, commands, failures>>

ReadReg ==
  /\ pc = "read" /\ stage = "none"
  /\ Allocate(RegWord(cursor), "wait")
  /\ UNCHANGED <<searchVars, driver, place, chips, suspect, commands, failures>>

\* setV(): the span, and after a pause the voltage; nobody waits for either.
SetSpan ==
  /\ pc = "span" /\ stage = "none"
  /\ Allocate(SpanWord, "forget")
  /\ pc' = "code"
  /\ UNCHANGED <<searchVars, driver, cursor, channel, restoring, chips, suspect, commands,
                 failures>>

SendRequest ==
  /\ Send
  /\ UNCHANGED <<searchVars, driver, place, chips, suspect, commands, failures>>

-----------------------------------------------------------------------------
(* The request thread and the chips.                                       *)

\* The chip takes a register; R0 with FCAL_EN starts a calibration.
ChipTakes(word) ==
  IF word.at \in Regs
    THEN /\ chip' = [chip EXCEPT ![word.at] = word.val]
         /\ calibrated' = IF word.at = R0 /\ word.val = [fcal |-> "on", powerdown |-> "off"]
                            THEN <<chip[VCO], chip[PLL]>> ELSE calibrated
         /\ UNCHANGED dac
    ELSE /\ dac' = IF word.at \in Channels THEN [dac EXCEPT ![word.at] = word.val] ELSE dac
         /\ UNCHANGED <<chip, calibrated>>

ServeWord ==
  /\ queue # <<>>
  /\ LET word == req[Head(queue)].word IN
     \/ /\ Serve("ok")
        /\ ChipTakes(word)
        /\ failed' = failed \ {word.at}
        /\ UNCHANGED <<suspect, failures>>
     \/ /\ failures < MaxFailures
        /\ Serve("failed")
        /\ failed' = failed \cup {word.at}
        /\ suspect' = "yes" /\ failures' = failures + 1
        /\ UNCHANGED <<chip, calibrated, dac>>
  /\ UNCHANGED <<searchVars, driver, place, commands>>

-----------------------------------------------------------------------------
(* The main thread goes on after a request.                                *)

\* spi_transfer() returns 0 whatever the answer: the register is clean.
Programmed ==
  /\ pc = "program"
  /\ dirty' = dirty \ {cursor}
  /\ Wake
  /\ UNCHANGED <<searchVars, regs, volt, place, chips, suspect, commands, failures>>

\* read_reg() stores what came back through reg::operator=, which drops what
\* does not fit the reserved bits and marks the register dirty in any case.
ReadBack(r) == {regs[r]} \cup (IF r = R0 THEN R0Values ELSE {Noise})
\* Mutant: the register does not become dirty.
StoreReadClean ==
  /\ pc = "read"
  /\ Wake
  /\ \E v \in ReadBack(cursor) : regs' = [regs EXCEPT ![cursor] = v]
  /\ suspect' = "yes"
  /\ pc' = "idle" /\ cursor' = PWR + 1
  /\ UNCHANGED <<searchVars, dirty, volt, channel, restoring, chips, commands, failures>>
StoreRead ==
  /\ pc = "read"
  /\ Wake
  /\ IF cursor \in dirty
       THEN UNCHANGED <<regs, dirty>>
       ELSE /\ \E v \in ReadBack(cursor) : regs' = [regs EXCEPT ![cursor] = v]
            /\ dirty' = dirty \cup {cursor}
  /\ suspect' = "yes"
  /\ pc' = "idle" /\ cursor' = PWR + 1
  /\ UNCHANGED <<searchVars, volt, channel, restoring, chips, commands, failures>>

-----------------------------------------------------------------------------
(* What the commands do to the registers.                                  *)

StartProgram == pc' = "program" /\ cursor' = PWR + 1

\* setup(); `powerdown(this) = 0` constructs a temporary and assigns nothing.
SetupRegs ==
  /\ regs' = [regs EXCEPT ![R0].fcal = "on", ![VCO] = "high", ![MUX] = "direct",
                          ![PLL] = [n |-> 500, frac |-> Whole], ![PWR] = 7]
  /\ dirty' = Regs

\* The second request of setV(), and what comes after it.
SetCode ==
  /\ pc = "code" /\ stage = "none"
  /\ Allocate(DacWord(channel), "forget")
  /\ \/ /\ restoring = "Q"
        /\ pc' = "span" /\ channel' = Q /\ restoring' = "lmx"
        /\ UNCHANGED <<cursor, regs, dirty>>
     \/ /\ restoring = "lmx"
        /\ SetupRegs /\ StartProgram
        /\ restoring' = "no" /\ channel' = I
     \/ /\ restoring = "no"
        /\ pc' = "idle" /\ channel' = I
        /\ UNCHANGED <<cursor, restoring, regs, dirty>>
  /\ UNCHANGED <<searchVars, volt, chips, suspect, commands, failures>>

\* The main thread takes the next command from its queue.
Command ==
  /\ pc = "idle" /\ stage = "none"
  /\ commands < MaxCommands
  /\ commands' = commands + 1
  /\ UNCHANGED <<hwVars, chips, restoring, failures>>

\* Mutant: the calibration is not asked for.
TuneOnly ==
  /\ Command
  /\ \E f \in Frequencies :
       LET whole == f.d.num * MaxDenom < f.d.den IN
       /\ regs' = [regs EXCEPT ![MUX] = f.mux, ![VCO] = f.core,
                     ![PLL] = [n |-> f.n, frac |-> IF whole THEN Whole ELSE None]]
       /\ dirty' = dirty \cup {MUX, VCO, PLL}
       /\ IF whole THEN StartProgram /\ UNCHANGED searchVars
                   ELSE StartSearch(f.d) /\ pc' = "search" /\ UNCHANGED cursor
  /\ UNCHANGED <<volt, channel, suspect>>
\* tune(), update_fVCO() and the first lines of update_PLL().
Tune ==
  /\ Command
  /\ \E f \in Frequencies :
       LET whole == f.d.num * MaxDenom < f.d.den IN
       /\ regs' = [regs EXCEPT ![MUX] = f.mux, ![VCO] = f.core,
                     ![PLL] = [n |-> f.n, frac |-> IF whole THEN Whole ELSE None]]
       /\ dirty' = dirty \cup {MUX, VCO, PLL, R0}
       /\ IF whole THEN StartProgram /\ UNCHANGED searchVars
                   ELSE StartSearch(f.d) /\ pc' = "search" /\ UNCHANGED cursor
  /\ UNCHANGED <<volt, channel, suspect>>

Approximate ==
  /\ pc = "search" /\ Search
  /\ UNCHANGED <<hwVars, driver, place, chips, suspect, commands, failures>>

\* The rest of update_PLL() and tune().
SetFraction ==
  /\ pc = "search" /\ result # None
  /\ regs' = [regs EXCEPT ![PLL].frac = result]
  /\ target' = None /\ low' = None /\ high' = None /\ result' = None
  /\ StartProgram
  /\ UNCHANGED <<hwVars, dirty, volt, channel, restoring, chips, suspect, commands, failures>>

\* setup_lmx(): the registers are set and not programmed.
Setup ==
  /\ Command /\ SetupRegs
  /\ UNCHANGED <<searchVars, volt, pc, cursor, channel, suspect>>

Reprogram ==
  /\ Command
  /\ dirty' = Regs /\ suspect' = "no" /\ StartProgram
  /\ UNCHANGED <<searchVars, regs, volt, channel>>

SetDrive ==
  /\ Command
  /\ \E v \in Powers : regs' = [regs EXCEPT ![PWR] = v]
  /\ dirty' = dirty \cup {PWR} /\ StartProgram
  /\ UNCHANGED <<searchVars, volt, channel, suspect>>

SetPowerdown ==
  /\ Command
  /\ \E b \in {"off", "on"} : regs' = [regs EXCEPT ![R0].powerdown = b]
  /\ dirty' = dirty \cup {R0} /\ StartProgram
  /\ UNCHANGED <<searchVars, volt, channel, suspect>>

Read ==
  /\ Command
  /\ \E r \in Regs : cursor' = r
  /\ pc' = "read"
  /\ UNCHANGED <<searchVars, driver, channel, suspect>>

SetVoltage ==
  /\ Command
  /\ \E c \in Channels, v \in Volts : volt' = [volt EXCEPT ![c] = v] /\ channel' = c
  /\ pc' = "span"
  /\ UNCHANGED <<searchVars, regs, dirty, cursor, suspect>>

-----------------------------------------------------------------------------
Commands == Tune \/ Setup \/ Reprogram \/ SetDrive \/ SetPowerdown \/ Read \/ SetVoltage
Transfers == Program \/ ReadReg \/ SetSpan \/ SetCode \/ SendRequest \/ Programmed \/ StoreRead
Main == Transfers \/ Approximate \/ SetFraction
Next == Commands \/ Main \/ ServeWord

\* The main thread and the request thread run when they can; nobody has to
\* type a command.
Spec == Init /\ [][Next]_vars /\ WF_vars(Main) /\ WF_vars(ServeWord)

(***************************************************************************)
(* Properties                                                              *)
(***************************************************************************)
\* Every register keeps a value it can have, the search and the requests
\* their shape.
TypeOK ==
  /\ regs[R0] \in R0Values
  /\ regs[VCO] \in Cores \cup {Noise}
  /\ regs[PLL] \in PllValues \cup {Noise}
  /\ regs[MUX] \in Outputs \cup {Noise}
  /\ regs[PWR] \in Nat \cup {Noise}
  /\ dirty \subseteq Regs
  /\ volt \in [Channels -> Volts]
  /\ pc \in {"span", "code", "program", "read", "search", "idle"}
  /\ cursor \in R0 .. PWR + 1 /\ channel \in Channels
  /\ \A x \in {target, low, high, result} : x \in Fraction
  /\ pool \subseteq Blocks /\ queue \in Seq(Blocks)

\* A register that is not dirty is in the chip as it is in the driver, unless
\* its last transfer failed: no change is forgotten (lmx2820.cpp:677-686,
\* 825-849).
CleanIsProgrammed ==
  restoring = "no" => \A r \in Regs \ (dirty \cup failed) : chip[r] = regs[r]

\* Between commands, with everything sent, the synthesizer is calibrated for
\* the frequency it is set to: R0 went out after the registers of the VCO
\* and the divider (lmx2820.cpp:641, 681).
CalibratedIsTuned ==
  /\ pc = "idle" /\ stage = "none" /\ dirty = {} /\ suspect = "no"
  /\ chip[R0] = [fcal |-> "on", powerdown |-> "off"]
  => calibrated = <<chip[VCO], chip[PLL]>>

\* The DAC has the voltage that was set once the request for it is through:
\* later voltages do not overtake earlier ones, though nobody waits.
Outstanding == {mine} \cup {queue[i] : i \in 1 .. Len(queue)}
DacFollows ==
  \A c \in Channels \ failed :
    \/ dac[c] = volt[c]
    \/ pc \in {"span", "code"} /\ channel = c
    \/ restoring = "Q" \/ (restoring = "lmx" /\ c = Q)
    \/ \E b \in Outstanding \ {NoBlock} : req[b].word.at = c

\* Every command ends: no block, queue entry or flag is waited for in vain.
CommandsEnd == pc # "idle" ~> pc = "idle"
=============================================================================
