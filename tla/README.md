# TLA+ models of the RMR machine

The repository drives a machine that builds multilayer dielectric elastomer
actuators. An Arduino Mega with a modified Marlin 2.1.2.7 moves the stages and
switches the relays of a UV lamp and of argon and vacuum valves; it talks over
an ASCII serial link to an ODrive S1 that turns the spin coater. A Raspberry Pi
bridges the Mega's USB port to WebSockets, and two pages, `RMR_Controller.html`
and `RMR_Touch.html`, are the operator's interface. This directory holds TLA+
modules of the parts whose faults are dangerous and hard to test: the spin
coater, the command queue with the motor-power sense, and the way from a page
over the bridge to the queue and back, and what the runs of the Process
Sequencer and the programs of the Program Runner do to the machine.

## 1. Inventory

| Part | State it keeps | Operations | Interacts with | What is hard |
|---|---|---|---|---|
| Spin-coater driver `feature/spincoater.*` | `_ready`, `_datumSet`, `_homePos`, `abortRequested` | `boot`, `forceIdle`, `ensureClosedLoop`, `doIndexHome`, `doSetHome`, `setVelocity`, `emergencyStop`, `requestAbort` | ODrive by UART; M750-M752; `kill()`; M410 in the temperature task | writes without acknowledgement, replies lost or garbled, retries with deadlines, a datum that must survive every failure, an abort at any poll |
| M750, M751, M752 `gcode/control/` | none beyond the driver's | spin cycle, set home, index home | the driver | six ways out of the cycle, homing after a spin, a fallback datum |
| ODrive S1 (external) | axis state, control mode, setpoints, encoder frame, `procedure_result` | state requests, procedures, faults | the driver | refuses, disarms itself, loses its frame with its supply |
| Motor-power sense `feature/motor_power.*`, `rmr_relays.h` | armed, rehome, last sample | `task()` from every `idle()`, `needs_rehome`, `clear_rehome`, `allOff` | queue, planner, G0/G1, G28, relays | runs inside the `idle()` of whatever handler waits |
| Command queue `gcode/queue.*`, `gcode.cpp`, `MarlinSerial.cpp` | receive buffer, ring of 4 lines | `get_serial_commands`, `advance`, `ok_to_send`, `clear` | every handler; the host through `ok` | cleared and refilled inside a handler that occupies slot 0; silent overflow |
| Motion handlers and planner (upstream, lightly changed) | blocks, cleaning counter, homed axes | G0-G3, G28, `quick_stop`, `quickstop_stepper`, `_buffer_steps` | queue, motor power | handlers wait in `idle()` for a block or for the motion to end |
| Pi bridge `pi-panel/rmr_bridge.py` | the open port, `serial_lock`, the connected pages | `write_serial`, `serial_reader`, `ws_handler`, buttons, tower | Mega by USB, pages by WebSocket | one reader thread, a writer per page and button, an event loop that fans out |
| `ok` attribution of the pages `RMR_Controller.html`, `RMR_Touch.html` | `okLedger`, `wsOwnPending`, `seqWaiter` | `sendCmd`, `okLedgerEcho`, `okLedgerOk`, `okLedgerLost`, `seqCmd`, `progSendNext`, `setConnected` | bridge | an `ok` carries no number: who earned it is inferred from echoes of all pages |
| Process Sequencer, Program Runner | running block, the step that waits, fault, abort, what the `finally` clauses owe | run, stop, pause, resume | ledger, homing gate, Run Log | asynchronous waits, state read before an `await` and used after, early ends at every line |
| Homing gate, lid rule, UV and argon plan | homed flag, last lid angle, spin marker, relay plan | track sent and received lines | ledger, sequencer | knowledge about the machine that others may change |
| Run Log | records, a hold before a step | record, export, hold | sequencer | holds the sequence |
| UV interlock firmware `uv_interlock.cpp` | - | - | - | compiled out in this configuration |
| `SpincoaterStage*`, `archive/`, `tools/`, `CAD/`, `docs/`, `tests/` | - | - | - | bench firmware that was replaced, drawings, scripts, documents |

What makes each part correct:

* **Spin coater**: whatever is lost or aborted, the Mega has told the rotor to
  stop when a command ends; the drive gets back its velocity mode; no search or
  calibration outlives its command unnoticed; a datum is never moved silently
  and never taken from a turning rotor (ADR-0002); a reported home is the home;
  every command ends (issue #42); a kill stops the chuck (ADR-0001), and so does
  a reset of the board (issue #40).
* **Queue and power sense**: lines run at most once and in order; what waited
  when the E-stop came never runs; relays stay off; no move is planned until
  the machine is homed again; the queue always drains.
* **Pages and bridge**: a step ends on its own `ok` only; it always ends; the
  ledger never keeps an entry that nothing will answer.
* **Program Runner**: a line that is waited for is carried out before the next
  is sent, whatever Pause, Resume, Stop and late answers do; a program ends.
* **Sequencer**: a gated block never moves axes whose position is unknown; the
  nozzle is not lowered into a closed lid, the chuck not started under an open
  one and the lid not opened over a turning chuck; however a run ends, lamp and
  valve are off and the firmware is in absolute mode; a run ends.

## 2. Modules

| Module | Extends | Models |
|---|---|---|
| `ODrive` | | the drive: requests that are accepted, refused or lost, procedures, faults, a supply that goes, a rotor that coasts |
| `Spincoater` | `ODrive` | driver and M750-M752, one place (`pc`) per loop or request of the code |
| `SpincoaterProperties` | `Spincoater` | what it promises |
| `LineOrder` | | abstract specification: lines run at most once, one at a time, in order |
| `GcodeQueue` | | receive buffer, ring, dispatch, `ok`, `clear()`, `advance_r()` as operators that the next two compose |
| `MotorPower` | `GcodeQueue` | main loop, handlers that wait, planner, motor-power sense, relays, M410, kill, reset |
| `MotorPowerProperties` | `MotorPower` | properties, and the refinement `INSTANCE LineOrder WITH last <- lastStarted, current <- running.id` |
| `Bridge` | `GcodeQueue` | `rmr_bridge.py` between the Mega's queue and the pages: lock, echo, port lost and reopened, connections lost |
| `OkLedger` | `Bridge` | the page: ledger, pending echoes, the step that waits |
| `OkLedgerProperties` | `OkLedger` | properties |
| `Workcell` | `GcodeQueue` | the machine as a process step meets it: known axes, refusal, lid, chuck, relays, mode; the handlers of the lines a run sends; E-stop, kill, reset, boot |
| `Sequencer` | `Workcell` | the page on Web Serial: runs and their blocks, ledger, homing lock, lid guess, markers of M750 and M752, Home All, move and Start Spin buttons, Stop, faults, timeouts, lost ports |
| `SequencerProperties` | `Sequencer` | properties that relate what a run sent to what the machine does |
| `ProgramRunner` | `Sequencer` | the Program Runner beside the sequencer: Run, Pause, Resume, Stop, lines that wait for their `ok` and lines paced by a timer, what halts a program; `RunnerNext` composes both; its properties |
| `MCSpincoater`, `MCMotorPower`, `MCOkLedger`, `MCSequencer`, `MCProgramRunner` | | definitions for the TLC instances |
| `SpincoaterProofs` | | proofs: types; safety; homing |
| `GcodeQueueProofs`, `MotorPowerProofs` | | proofs: lemmas on the queue operators; power sense and refinement |
| `LedgerProofs` | | proofs: types of the bridge and the pages; nobody is forgotten; no step is answered early |
| `WorkcellProofs`, `SequencerProofs` | | proofs: the machine under any lines written to it; the sequencer's types, its homing lock and its relays |
| `ModeProofs` | | proofs: the mode and the lid as the lines on their way will meet them, and the chuck under the lid |
| `RunnerProofs` | | proofs: types of the Program Runner beside the sequencer; one line in flight |

### How the models correspond to the code

**Spin coater.** `pc` names the place of the command that runs (`homeWaitIdle`
is the second polling loop of `doIndexHome()`). A polling loop is one place: it
is left when a poll sees what it waits for, or at its deadline, which may also
be reached because every reply was lost. A write may always be lost; the
reasons a stop may not have reached the drive (`velStale`, `modeStale`,
`loose`) are history, as are the angle of the chuck when the datum was recorded
(`zero`) and whether the frame was anchored then (`indexed`). Positions are
counts, `Turn` counts to a turn; `frame` is the offset of the incremental
encoder from its index mark, so that `Physical(pos)` is the true angle.

**Queue.** The ring buffer is the sequence of its occupied slots. A handler
that waits stays in the first slot while `idle()` fetches, clears and samples
the power; when it returns, `advance_r()` frees the first slot, whatever has
come to be in it. The model keeps this because it is the hazard.

**Power sense.** `TaskArms` and `TaskLoss` are one sample each. `TaskLoss` is
the whole reaction in the order of the code: relays off, planner emptied (which
starts the cleaning second), queue cleared, axes unhomed, moves refused. The
two relays are one. Handlers are reduced to what they wait for, refuse and
change; `M750` stands for every long command that only calls `idle()`.

**Bridge.** `WriteBegins` and `WriteEnds` are the two ends of the critical
section of `write_serial()`, so that the reader thread may broadcast in
between; `ReportsDropped` is the error sent after the lock is released.
`port` separates the moments at which `serial_reader()` has reopened or lost the
port and at which the pages are told. `ReadsLine` broadcasts one line.
The queue of the event loop and the connection to a page are one FIFO.

**Pages.** `HandleMessage` is one message through `handleWSMessage()`. A step
stands for `seqCmd()` and for a line of `progSendNext()`, which wait in the same
way; its number stands for the closure that `okLedger` keeps. `origin` (who sent
the n-th line) is history.

**Machine and sequencer.** `Workcell` uses the same queue operators as
`MotorPower` and keeps of each handler what decides whether a process step is
safe; a move stands for its `G1` and the `M400` behind it. `known` is the truth
about the axes, `homed` the page's lock; `lid` is where the lid is, `lidLast`
what `lidState()` takes it for; `rotor` is the chuck, `verdict` the page's
`spinLidVerdict` and `uvIndexVerdict`, of which never both are armed. A plunger
or feeder step is a move by a distance, every other move goes to a place. `Steps` lists the lines of a block in order; a block runs from
one wait to the next without interruption, as JavaScript does, and `Unwind` is
what its exceptions and `finally` clauses do. `owed` is what those clauses have
to send. On Web Serial the page is the only writer, so its ledger is the order
of the bytes, and an entry holds the number of its line only if a step waits for
it. Start Spin (`spinStart()`) is two actions: `StartSpin` closes the lid, and
`LidClosed` turns the chuck once the `ok` of that line has come (`due`), however
late, also when a run has begun meanwhile. History variables: `thrown` (lines the
firmware freed unread), `lifted` (a G28 lifted the refusal although the axes are
not known), `spun`, `misheard` (a step was answered by the `ok` of another line),
`fed` (the Stamp block has switched to G91 for its feeder and not back) and
`blind` (Start Spin turned the chuck when the page knew the lid open).

**Program Runner.** `ProgramRunner` adds it to the page of `Sequencer`, over the
same ledger, lock and machine. `prog` is `progRunning` with `progPaused`, `lines`
what is left of `progLines`, `awaits` the line of `progOkToken`. `sending` says
what will call `progSendNext()`: the timer, or code that runs at once
(`progOnOk()`, Run, Resume), which nothing comes between (`Undisturbed`). The
"Wait for ok" box is read anew for each line. The ledger entry of a line that is
waited for is `-1 - id`, so that the sequencer's `OkLine` takes it off the ledger
as nobody's and `ProgHears` gives it to the runner. A program may be started
without a connection: its first line is then never answered. `last` (the line
that was sent last, if it is waited for) and `mistaken` (its wait was ended by
another line's `ok`) are history.

## 3. Runs

The bounds are in the configurations. `CHECK_DEADLOCK FALSE` is set everywhere:
a killed board stops for good, and the bounded host stops when it has sent all
its lines.

| Run | What it checks | Bounds, and why they are enough |
|---|---|---|
| `spincoater_control` | `TypeOK`, `RotorToldToStop`, `ModeRestored`, `ProcedureAccountedFor`, `DriverInv`, `BootDatumInv`, `DatumFromRotorAtRest` under M410, kill, reset and self-disarm at every place | one angle (angles play no part here), two entry attempts and one calibration: each retry loop is both repeated and exhausted |
| `spincoater_datum` | `DatumKept`, `DatumFromRotorAtRest`, `HomedAtZero`, `BootDatumAtMark`, `HomingInv`, `BootDatumInv` with power cycles and turning by hand | three angles on a turn and a third: the smallest chuck on which a wrong fraction of a turn differs from a wrong turn |
| `spincoater_ends` | `CommandEnds`, `KillStopsRotor`, `ResetStopsRotor` under fairness, with kills, resets and self-disarms at every place | M750 only, one attempt, one calibration: 0.5 million states |
| `power_queue` | `LinesInOrder` (refinement), `QueuedLinesNeverRun`, `NoMovesUntilHomed`, `RelayOnlyOnAfterLoss`, `PowerInv`, `TypeOK`, and `QueueDrains` under fairness | every kind of line but arcs and G28 Z, one axis; four lines, two slots, two in the receive buffer, one block: every buffer fills, a loss falls into a handler, and lines come after it |
| `ledger_steps` | `StepNotEarly`: two pages, a button, stops and timeouts, no faults | three lines: a step, a line of another page or the button, and one that comes late |
| `ledger_faults` | `NobodyForgotten`, `StepEnds`, `TypeOK`: one page, any two faults | two lines, a ledger of one entry so that it overflows |
| `page_run` | `MovesOnKnownAxes`, `MovesInTheirMode`, `LowersUnderOpenLid`, `SpinsUnderClosedLid`, `OpensOverStoppedChuck`, `RelaysOffAfterRun`, `AbsoluteAfterRun`, `KnownInv`, `RelayInv`, `OneLineInFlight`, `TypeOK`, `RunnerTypeOK`, and `RunsEnd` under fairness | seven sequences with every block and a program that homes and then closes the lid, two runs or buttons, two mishaps of any kind at any place (a Pause, a Stop and a Start Spin count as one): a run that fails, one that starts from what it left, and a second fault in either; 1.9 million states |

Five runs look for what a comment or document says and the code does not do;
each ends in a counterexample:

| Run | Claim | What happens |
|---|---|---|
| `spincoater_abort_ignored` | `spincoater.h:173`: M410 stops a running cycle | after the hold nothing reads the flag; the cycle homes and completes |
| `power_arcs` | `motor_power.h:6`: moves are refused until re-homed | G2/G3 do not ask |
| `ledger_same_text` | `RMR_Controller.html:2016`: no step moves on another client's `ok` | echoes are matched by text; two pages that send the same text swap them |
| `ledger_reconnect` | `RMR_Controller.html:1772`: nothing outstanding is answered on a new connection | a WebSocket reconnect does not reset the Mega: its late `ok` ends a later step |
| `sequencer_relative` | `RMR_Controller.html:3167`: `syrRelative()` restores absolute mode however it ends | after an E-stop the recovering G90 is fetched into the slot that the interrupted handler's `advance_r()` frees: it is never read |

`StepNotEarly` fails in the same way after an E-stop, a reset and a lost port
(the handler that was running, or a line sent while the page had not yet read
`start`, is still answered after the ledger was emptied), which is why
`ledger_faults` does not list it. `NoMovesUntilHomed` makes an exception once an
M410 was sent: a G0 that waits for a block while M410 waits for the cleaning
second to pass finds the counter at zero and is planned after all. `power_queue`
leaves arcs out, and the theorem states this as its assumption.

The properties of `page_run` name their exceptions, each found by a
counterexample: a `lifted` refusal (the E-stop fell into a G28 that came to its
end all the same), a closing of the lid or a G90 that was `thrown` away unread,
a Stamp block that ended between its G91 and G90 (`fed`: it uses no
`syrRelative()`; `MovesInTheirMode` shows that no later run or button moves in
the wrong mode for it, as each states its mode first), a `blind` Start Spin (it
waits behind a handler, a homing is sent meanwhile and opens the lid again before
the M750 that follows on the lid's `ok`), and a step that `misheard`: two E-stops leave late `ok`s that answer two lines
of a later run too early, and that run may take an earlier cycle's marker for
its own and open the lid over the turning chuck. `OneLineInFlight` excepts a
`mistaken` line in the same way. The program of this run holds no moves, because a
program states no mode by itself: without "Wait for ok", an E-stop that falls
into its G28 clears the G90 behind it and leaves the move behind that in the
receive buffer, and the G28, if it comes to its end, lifts the refusal (TLC finds
it for `MovesInTheirMode` with the program G28, G90, G1).

### Fairness

* **Spin coater**: weak fairness on the running command leaving its place and on
  the rotor slowing down; kills, resets and self-disarms are not fair. Every loop of the driver has a deadline on
  `millis()`, so no loop is repeated for ever; nothing is assumed about replies,
  writes, searches or calibrations.
* **Queue**: weak fairness on the main loop, on the handler that waits, on
  fetching from `idle()`, and on the stepper interrupt that empties the planner
  and counts the cleaning second down. Hosts, E-stop and kill are not fair.
* **Bridge and pages**: weak fairness on the Mega's loop, each writer that holds
  the lock, the reader while the port is open, and each page's event loop.
  Reopening a lost port is not fair: the cable may stay out.
  `StepEnds` does not use the 90 s timeout of `seqAwaitOk()`: it shows that a
  step ends without it, unless the receive buffer dropped a line or the board is
  halted.
* **Sequencer**: weak fairness on the Mega, on the code of the run and on the
  event loop that handles a received line and sends a program's next. Timeouts and
  the operator are not fair: `RunsEnd` shows that a sequence ends without them,
  unless the board is halted, when only the timeout of the step ends it; and so
  does a program that is not paused and has a connection (it has no timeout).

## 4. Proofs

All theorems hold for every value of the constants: any number of counts, any
limits of the retries, any buffer sizes, any number of lines.

* `TypeCorrect`: the type invariant of `Spincoater`, by groups of actions
  (`RunForceIdle`, `RunBoot`, `RunCycle`, `RunHome`, outside events).
* `DriverSafe`: `DriverInv` is inductive relative to the types. The three
  safety properties are not: that a finished command leaves no procedure behind
  holds because at every place where the axis may search the command is still
  on its way to a poll or to `forceIdle()` (`ProcedureTended`), and the mode
  likewise (`ModeTended`). `RotorSafe`, `ModeSafe`, `ProcedureSafe`
  follow.
* `ResetSafe`: from the disarm in `startupSafetyDisarm()` until `boot()` takes
  the drive over nothing arms the axis (`UnbootedDisarmed`). It needs
  `BootWithoutDatum`: a command that runs without a booted drive is in `boot()`.
  That the rotor then coasts to rest (`ResetStopsRotor`) needs fairness.
* `DatumSafe`: `DatumKept`, from the arithmetic of the normalisation (lemma
  `WholeTurns`).
* `HomingSafe`, `HomeReached`: `HomingInv` is inductive: a datum of an indexed
  frame is congruent to its angle modulo a turn, and a search that ended
  without failure has anchored the frame. A reported home is then the angle at
  which the datum was recorded.
* `BootSafe`, `DatumAtRest`, `BootDatumSafe`: a datum is recorded by `doSetHome()`,
  which asks for the speed, and by `boot()`, which does not: it relies on its
  settle. `BootDatumInv` says why that is enough: `boot()` runs without a datum
  (`BootWithoutDatum`), it arms a disarmed axis, so that no move but its own is in
  progress (`BootGoal`), and after its settle, on a whole number of turns in a frame
  anchored at the mark (`BootFrameFound`), nothing moves the rotor before its
  position is read (`BootAtRest`) although the drive may still be in closed loop.
  The theorem's exception was found by the proof: after a reset in the middle of a
  spin whose velocity the drive keeps, with the write of the position mode lost, the
  rotor speeds up when the axis is armed, the settle can pass while the rotor goes
  by the mark, and a datum is read from a turning rotor. `feedbackStable()` does not
  notice, and nothing in `setup()` writes the velocity.
* `PowerTypes`: the types and `QueueOrder`: everything in the ring and on its
  way was sent later than what was started last, except a waiting line itself in
  slot 0. It is what makes `advance_r()` safe although it does not know
  whose slot it frees.
* `QueueImplementsLineOrder`: each step of the whole firmware model is a step
  or a stutter of `LineOrder`, using `QueueOrder`.
* `ClearedLinesNeverRun`, `RelaysAfterLoss`: from `LinesAfterLoss`: what waits
  was sent after the last loss that was handled.
* `MovesStayRefused`: under the assumption that no arcs are among the lines,
  from `RefusalInv`: a G0 that waits while moves are refused finds the planner
  cleaning, unless an M410 was sent.
* `PowerInvHolds`: the three parts of `PowerInv` together, under the same
  assumption.
* `SequencerTypes`: the types of the machine and the page, and `QueueOrder` for
  the lines of a run, for any programs, any number of runs and mishaps.
* `KnownHolds`, `KnownMoves`: `MovesOnKnownAxes` is not inductive: that the first
  line in the queue is no move says nothing of the second. `KnownInv` describes
  the one state in which neither the firmware's refusal nor a home protects the
  axes (`Unguarded`: up, axes not known, moves not refused). It arises only when
  the board boots, because a power loss sets the refusal and a G28 that lifts it
  without knowing the axes sets `lifted`; the queue is then empty and the
  `start` on its way to the page. From there every line that relies on a home
  (a move, or the marker that unlocks the page) has a G28 with a smaller number
  on its way before it. It keeps it, because the lines are in order and a G28
  that waits in its slot cannot lose it without a loss (`CellInv`); and the page
  writes no such line without a G28 first, because from the `start` on it is
  locked, and a run that it starts or goes on with has its G28 pending or in the
  steps before (`PageKnows`). So the first line in the queue is no move.
* `RelaysOwed`, `RelaysSwitchedOff`: `RelaysOffAfterRun` looks only at a machine
  with nothing on its way; `RelayInv` says why it is off by then. A relay that
  will be on once all lines on their way are carried out (`StaysOn`) is owed a
  switching-off. It comes to stay on only by the run's own `M42 ... S1`, whose
  debt is taken before the line is written; the debt is cancelled only by the `ok`
  of the `S0` step, written after it, or paid by the finally that writes an `S0`
  behind everything else. Lines leave the queue from its front, where an `S1` is
  taken no later than the `S0` behind it, except that a handler which has lost
  its slot frees another line's: it has lost it to a power loss, which has
  switched the relays off (`SlotInv`), and what it frees is then the oldest line.
  A step that is owed is still before the run or the run has failed (`PlanInv`),
  so a run that has ended owes nothing. A board that resets boots with its relays
  off, and while it cannot be reached (`Reached`) nothing is claimed.

* `AbsoluteRestored`: the mode is treated as the relays are, but a mode is not
  a debt that every way out pays. `EndsBy` says what the lines on their way make
  of a flag that some kinds set and others clear, for the line with a given
  number: the last such line before it decides, or the flag as it is now.
  `ModeOwedHolds` is the induction: a mode that the lines on their way leave
  relative is owed a `G90` (`DebtInv`: by a step of the run, or by the finally of
  a run that failed), or a Stamp feeder has left it so (`fed`); so is one that is
  relative already, unless the firmware threw its `G90` away.
* `MovesMeetTheirMode`: every move on its way will meet the mode it needs
  (`MoveInv`), or finds the axes unknown with no G28 before it; so would every move
  in the run's steps that no mode line of
  the run precedes (`ExpectInv`). An E-stop clears the queue from the front and
  may take the `G91` and leave the move behind it in the receive buffer; the
  refusal then holds the move back, which is why a `lifted` refusal is excepted,
  as in `MovesOnKnownAxes`. (`page_run` does not reach this with two mishaps;
  the proof did not go through without the exception, and TLC finds the
  counterexample with four.)
* `LidTracked`, `LowersHeld`, `SpinsHeld`: `lidLast` is what the next line will
  meet (`TrackInv`): if it is not `closed`, the lid is open by then, or the axes
  are not known and moves are refused (`Guarded`); if it is, the lid is shut, or
  the line that closes it was thrown away, unless a boot has opened it and the page has not yet read the
  `start` that makes it forget (`StartInv`: until then nothing is on its way, and
  no run goes on). A lowering move in the steps has a lid that is not closed or
  the opening step before it, a spin a closed lid or the closing step before it
  (`LidPlan`), because a block decides for its lid by `lidState()` where it
  starts and when the lid step is taken. From there each `G1_B` and each `M750`
  on its way has what it needs before it (`LowerInv`, `SpinInv`), and what the
  E-stop takes out of the queue before them does not matter to moves that are
  refused from then on, and a closing line that goes unread is `thrown`.
* `ChuckKnown`, `OpensHeld`: `OpensOverStoppedChuck` is about the moment when the lid
  opens; `ChuckInv` says what is true of the chuck in between. Between its spins the
  chuck of a run that has spun is at rest and no `M750` or `M752` is on its way. While
  one is waited for, a chuck that turns does not look stopped to the page, now or
  once it has read the link (`Tells`): the marker with which a cycle begins takes back
  whatever was printed before, and no marker comes behind the `ok` of its line. Once
  that `ok` is heard no marker is left that could change the verdict, so a spin that
  the page takes for complete is one. This needs to know whose `ok` it was: an `ok` on
  the link is that of a line that has ended (`LinkIds`), and, `misheard` excepted,
  the last line sent has then ended and nothing is on its way. That a Start Spin of the operator does not
  turn the chuck meanwhile is the ledger's doing (`EntryInv`, `CleanInv`): its entry
  is before that of the step that is waited for, so the first `ok` that a run hears for a step
  of its own comes after it, and no block spins before it has waited for another
  command (`Soft`).
* `RunnerTypes`, `RunnerOneLine`: `OneLineInFlight` compares what the runner does
  with the line it sent last. `FlightInv`: while the runner waits it waits for
  exactly that line; once it does not, the line is no longer in the queue or with
  its handler, or is `mistaken`; and an `ok` on the link is that of a line that
  has ended. So whatever lets the runner go on, its last line is through.
* `LedgerTypeCorrect`: the types of the bridge, of its queues of messages and of
  every page, with the limit of the ledger (`TypeOK` of `OkLedger`).
* `LedgerNobodyForgotten`: `NobodyForgotten` says that when all is quiet no ledger
  keeps an entry and no step waits. What makes it true is a balance that runs
  through the whole chain: the `ok`s that are printed, on the wire, in a page's
  inbox, or still owed for lines in the queue, are enough to empty the page's
  ledger when all the echoes on their way have filled it (`DrainInv`). A ledger
  that is emptied by a `start`, a loss or its own limit makes this harder to
  state: a number of entries *covers* a stream if some bound for the length after
  each message starts high enough and ends low enough (`Covers`), which needs no
  recursion. `PendingInv` embeds what a page has sent into the echoes still to
  come, `WaiterInv` finds the waiting step in the ledger or among them, and
  `ConnInv` says that a page that is not connected holds nothing. A line that the
  receive buffer dropped is excepted, as in the property; the ledger may have any
  limit.
* `LedgerStepNotEarly`: `StepNotEarly` says that the answer which ends a step does not
  come before that of the step's own line, although neither an `ok` nor an echo says
  whose it is. The lines are numbered in the order in which the bridge takes them
  (`Author` is who sent the line with a number). `LedgerRight`: for each page there is a number d such
  that the page has taken d answers, its ledger entries that
  are not 0 stand for its own lines d + 1, d + 2 and so on (`Attributed`), the echoes
  in its inbox go on from there to the line taken last (`Numbers`), and its pending
  commands are found in their order among those echoes and the commands that are
  still to be taken (`Matched`); the answers in the inbox and on the wire are those of later lines
  than d, in ascending order, and of lines that have ended (`Answered`). The next
  `ok` may be that of a line beyond d + 1, because the receive buffer has dropped
  some: then it comes late, never early. What makes an echo end the right pending
  command is that no other page could have sent its text (`DistinctTexts`, which
  keeps `M410` to the Stop that nobody waits for; an M410 may be matched with the
  echo of another page's M410, and both have the entry 0). The theorem has three hypotheses, and the
  code needs each: the texts differ (`ledger_same_text`), there is no mishap
  (`ledger_reconnect`), and no ledger reaches its limit, where it is emptied while
  answers are still to come. Pages, lines, buffers and the button are unbounded. A property of
  steps that holds in all behaviours without mishaps holds up to the first mishap
  in the others.

The proofs about the sequencer use the three statements about time of section 5
where the model does: that a run does not go on before a `start` that has arrived
is handled. The invariants of `ModeProofs`, `LedgerProofs` and `RunnerProofs` are
stated in those modules, beside their proofs, and no run lists them; TLC has
checked them on the instances of `page_run`, `ledger_steps` and `ledger_faults` (the first with
up to two runs and two mishaps, 1.29 million states without programs).

The assumptions are those of the `ASSUME`s: `Turn` positive, buffers of a size,
names of events from the list, programs that are not empty, and an M410 among the
kinds of lines of the ledger model (a page's Stop sends it). Only model-checked:
the liveness properties (`CommandEnds`, `KillStopsRotor`,
`ResetStopsRotor`, `QueueDrains`, `StepEnds`, `RunsEnd`), which need fairness and `ENABLED`. The theorems about the sequencer are about `Sequencer!Spec`, in which
no program runs, those of `RunnerProofs` about `RunnerSpec`, in which both do;
`page_run` checks the properties of both with programs.

## 5. Abstractions

* Time is left out: a deadline may pass at any poll. This is weaker than the
  code for safety. `CleaningEnds` may come at any time, but not before a
  handler that already waits for a block has returned: the second is longer
  than one return from `idle()`.
* Contactor samples may be skipped (50 ms apart); endstop readings and the order
  in which axes home are nondeterministic.
* The drive may keep or drop its velocity setpoint when it arms; its firmware is
  not in the repository. `RoundTurns` rounds half up.
* Telemetry and parsing are reduced to replies that arrive, are lost or are
  garbled. Statistics, M753 and M754 change no state and are left out.
* A page's M112, Web Serial (where the page itself is the only sender), the
  `Resend:` of M999, multi-line button commands, repeated "closed" reports
  while the port stays closed, the status tower and the E-stop sense
  input of the bridge are left out. A line that the bridge writes while the
  Mega boots is lost.
* Faults of the host side are counted (`MaxMishaps`).
* `Workcell` and `Sequencer` rest on three statements about time. `TimePasses`:
  lines are handled within milliseconds, while handlers that wait, boots and
  operators take seconds; none of these ends before the page has handled what
  was printed and an idle Mega what it has received. `Attentive`: likewise a
  timer does not fire before a `start` that has arrived is handled. `Busy`: no
  handler and no boot ends while the page's own code runs between two waits.
* The page's sequencer: one dispense move stands for the dose and the retract;
  the purge before the first dose, the M114 check of the stroke, and the
  Stamp block's gripper and its `alt` mode are left out. Home All, the move
  buttons and Start Spin are pressed between runs only, when all that was sent
  before has been handled or waits behind a handler; the `ok` of a Start Spin may
  come at any later time. The same holds between the Sequencer and the Program
  Runner, which the code does not keep apart; nor does it keep Load .gcode from
  replacing the lines of a running program. Start Spin is modelled above 120 RPM, where it moves the
  lid. The ledger does not overflow (64 entries). The catch of a failed write and the
  fault on a generic error line are left out: each fails the step, as the faults that
  are modelled do. So are the jog pad, the console and the lid buttons during a run.
* `SpinEnds` of `Workcell` takes the rotor as at rest when a cycle prints
  either marker. At `CYCLE_COMPLETE_NO_HOME` an index search that `forceIdle()` could
  not confirm idle may still creep (`ProcedureAccountedFor` names this exception); the
  page accepts the search with the lid open (`RMR_Controller.html:3374`).

## 6. Plan

1. The sequencer over `OkLedger` and the bridge: other pages that press Home All,
   move the lid or Stop during a run.
2. The Program Runner during a sequence, and with its lines replaced by Load
   .gcode under a running index.
3. The abstract specification of the ledger, "the n-th `ok` belongs to the n-th
   line", with `OkLedger` on a fault-free link as its refinement.
4. The ring buffer index by index, with slot contents and the parser's pointers,
   refining `GcodeQueue`: G28 reads its parameters after a wait.
5. The bridge's tower and E-stop sense.
6. Proofs: the sequencer's properties for `RunnerSpec`, with programs that state
   their mode.

## 7. Not modelled

Upstream Marlin beyond what is named above (stepper timing, temperatures,
displays, SD card); layout, charts and export of the pages; the bench firmware
and dashboard of the spin coater; CAD, drawings and scripts.
