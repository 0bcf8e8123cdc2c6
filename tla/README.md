# Scyclone in TLA+

Scyclone is a JUCE audio plugin: the input is split in two, each half goes
through a transient splitter, two filters and a neural network (RAVE models run
by ONNX Runtime), and the two outputs are mixed again.  The plugin has no
tests.  This directory holds TLA+ modules that model the parts of it in which
threads meet, TLC configurations that check them on small instances, and TLAPS
proofs that hold for all sizes.

Paths below are relative to the repository's root.

## 1. Inventory

| Part | State it keeps | Operations | Talks to |
|---|---|---|---|
| `RingBuffer` (`source/dsp/onnx`) | buffer, `readPos`, `writePos` | `initialise`, `reset`, `pushSample`, `popSample`, `getAvailableSamples` | two rings per network: host to worker, worker to host |
| `InferenceThread` (`source/dsp/onnx`), a `juce::Thread` | input ring, `init`, `init_samples`, `session`, in- and output vectors, `loadingModel`, `last_spec`, `startUp` | `prepare`, `sendAudio`, `run`, `setInternalModel`, `setExternalModel`, `getLatency` | calls `onNewProcessedBuffer` (worker) and `onModelLoaded` (loader) |
| `OnnxProcessor` (`source/dsp/onnx`) | output ring, `inferenceCounter`, `latencyInSamples` | `prepare`, `processBlock`/`processOutput`, `parameterChanged`, `loadExternalModel` | owns an `InferenceThread`; calls `onOnnxModelLoad` |
| `AudioPluginAudioProcessor` (`source/PluginProcessor`) | work buffers, mixers, parameters, names of the two models, suspended flag (JUCE) | `prepareToPlay`, `processBlock`, `parameterChanged`, get/set state, `loadExternalModel` | owns everything below; host, editor |
| Envelope, `TransientSplitter` (`source/dsp/utils`, `transientSplitter`) | `lastValue`, coefficients | `prepare`, `processBlock`, setters | audio thread; setters from listeners |
| `IIRCutoffFilter` | filter parameters, `enabled` flags | `prepare`, `processFilters`, `parameterChanged` | as above |
| `Compressor` | envelope, make-up buffers and gains | `prepare`, `processBlock`, setters | as above |
| `DryWetMixer`, `ProcessorGain`, `GrainDelay` | proportions, gains, muted | thin wrappers of JUCE and RNBO | as above |
| `LevelAnalyser`, `AudioVisualiser` | last level; display | written by audio, read by the GUI | |
| `AudioPluginAudioProcessorEditor`, `OpenGLBackground` | file chooser, components | `parameterChanged`, `openFileChooser` | processor, through parameters and `std::function`s |
| `XYPad` | knob on drag / on hover, timer counter | mouse handlers, `timerCallback`, `updateKnobName` | parameters (gestures) |
| Controls, look and feel, header, textures | layout | painting | |

Not part of the program's own logic: `modules/RnboExport` and
`modules/onnxruntime` (vendored), JUCE (a submodule), `assets`.

### Threads

* the **audio thread** runs `processBlock`; JUCE holds the callback lock around it;
* the **worker** of each network runs `InferenceThread::run` once per model
  input, started from the audio thread;
* the **message thread** runs the GUI, `prepareToPlay` and usually
  `parameterChanged`; a host that automates a parameter may call
  `parameterChanged` on the audio thread instead, so a model may be loaded there.

### What is hard

Timing (an inference against the audio clock), unlocked sharing of the rings,
loads that replace what a worker is using, a single suspended flag for two
networks, a latency that is computed in one place and realised in another, and
counters that must stay right for as long as the plugin plays.  `hazards` in
`PROJECT.json` lists each at its line, with the properties that cover it or the
reason why none does.

### What makes each part correct

* ring: what is popped is what was pushed, in order, without NaN;
* network stream: delay equals the latency told to the host; no block missed if
  the machine is fast enough; recovery if it was not; rings large enough;
* loading: no session, ring or counter replaced under a thread that uses it (which
  needs all loads on the message thread, or those of the host kept apart from them);
  nothing of the old model heard after; the plugin does not stay silent;
* pipeline: only numbers reach filters and networks, whatever the host sends; a settled
  path puts out numbers, except what the host itself has put into the dry path; nothing is written that the host's buffer does not have;
* model selection: a model runs under its own name; a network switched off runs the
  internal model; no chooser outlives the editor it calls back;
* compressor: the make-up gain is the one the parameter says, and jumps only where the
  user has chosen another;
* splitter, filters, grain delay: settings follow the parameters, and a block without
  NaN goes through one filter; no state that the plugin's own samples ruin for ever;
* XY pad: every gesture begun is ended; buttons vanish when the pointer has gone.

## 2. Modules

| Module | Models | Composes |
|---|---|---|
| `SampleQueue` | what a ring promises: a bounded queue that forgets everything when pushed too far | |
| `RingBuffer` | the methods of `RingBuffer`, contents included, one action per method | implements `SampleQueue` |
| `RingBufferThreads` | the output ring shared by worker and audio thread, one action per memory access, until an empty ring is read as a full one | implements `SampleQueue` |
| `DelayLine` | what a network promises its host: a delay of the reported latency, and one block more per late block until one is given up | |
| `NetworkStream` | one `OnnxProcessor` with its `InferenceThread`, counting samples | two rings as counts, worker, audio thread, `prepare`, loads; implements `DelayLine` |
| `ModelLoading` | loads step by step, against callbacks and workers of all networks | networks, worker threads, loaders |
| `ModelSelection` | SELECT, the file chooser, names kept, shown and saved, editor opened and closed | loads are single steps |
| `SignalPath` | `processBlock` of the plugin: mix-down, splitters, filters, networks, make-up gain, dry path; samples as classes of floating-point values | splitters, filters, networks as their warm-up, compressor |
| `MakeUpGain` | the compressor's automatic make-up gain, one memory access per step | audio thread, `parameterChanged` |
| `XYPad` | pointers, gestures, the hover timer | pad, chooser, editor |
| `Settings` | parameters and the settings made of them, cutoff updates step by step | message thread, audio thread |
| `MC...` | constants for TLC | |
| `...Proofs` | theorems | |

### RingBuffer and SampleQueue

State: `capacity`, `buffer`, `readPos`, `writePos` as in the class (one channel,
as every ring of the program has), and `popped`, what the last `popSample`
returned.  `initialise` leaves a buffer of the same size alone and otherwise has
slots of unknown content (`Uninit`), as `AudioBuffer::setSize` does.
`PopSample` has the guard of its callers, which test `getAvailableSamples`
first.  The refinement mapping `Unread` lists the slots from `readPos` on.  The
abstract `Push` says what the code does when a ring is pushed too far: it counts
as empty, so all is forgotten.

`call` is a history variable of both modules: which method was called last.  Without
it a ring that wrongly forgot its samples in some other method would still be a queue
that had been cleared.

### NetworkStream

The same two rings as numbers of unread samples, `recv` and `out`; `Pushed` and
`Forgotten` are what n pushes do to such a number.  `SendAudio` is all of
`sendAudio`: push the block, count `init_samples`, take a model input and start
the worker if it is idle, clear `init`.  `ProcessOutput` is `processOutput` with
its three outcomes `PassThrough`, `Serve` (with the skip) and `Miss`.  The worker
pushes one sample per step, because the callback may look at any moment.
`Prepare` does not stop the worker, like the code; the samples it still has to
push are recorded in `stray`.  `ReloadModel` is the effect of a load that returns
(the steps are in `ModelLoading`); such a load has found the worker idle.  That
load stops no worker: one that meets a running worker never returns (below).

A block is always of the prepared length.  That is what the code does, not a
simplification: `stereoToMono` overwrites the beginning of `monoBuffer`, which
keeps the size `prepareToPlay` gave it, and every copy of it has that size, so
`sendAudio` gets `maximumBlockSize` samples whatever the host sends.  For a host
that sends shorter blocks this means more network samples per second of real time;
in the model, a longer `RunTime`.

`age` is audio time since the worker started; `SendAudio` is disabled once the
inference would last `RunTime`.  This is the only place where time enters: it says
"an inference is over before so many samples have passed".  `RunTime` may be
chosen shorter or longer than the time the code grants (`maxModelCalcSize`).

`DelayLine` is what the host sees between two callbacks: the samples `owed` to it and
the blocks the line is `late` with.  The mapping takes `Delay - sending` and
`inferenceCounter`; sending, pushing, serving a block due and the end of the worker are
stuttering steps, `PassThrough` fills the line, `Miss` and the skip of `Serve` are
`BeLate` and `CatchUp`, `Prepare` and `ReloadModel` restart it.

### ModelLoading

`load[t].at` is the program counter of a load by thread `t`: *suspend* (wait for
the callback lock, set the suspended flag), *flag* (`loadingModel = true`),
*check* (`isThreadRunning`), *stop*, *spin* (the inverted wait), *create*
(`session = Ort::Session(...)`, which may throw for a chosen file), *prepare*,
*unsuspend*, *reset*, *lower*.  Internal and external loads take these same steps.
`block` is the network the audio callback is at; the lock is held while it is not 0.
`stage` is the callback's place in that network: `SendAudio` pushes the block and makes
its tests, the last of which is `loadingModel` (`InferenceThread.cpp:33`), `StartWorker`
takes the model input out and starts the thread (39), `ProcessOutput` follows.  Steps of
a load and of the worker fall between any two of these (`Callback` is the three of
them).  `left` abstracts `init`/`init_samples` to a number of blocks;
`out[n]` says whose samples the output ring holds.  Whether a model input is
complete and whether a block empties the ring is left open (`enough`, `drained`):
`NetworkStream` has the numbers.  `stopThread` either finds the worker finished,
its samples pushed, or kills it.  `window` counts the callbacks since the plugin
was un-suspended, while the output ring is still to be reset.

Which thread loads which network is chosen in `Init` (`loads`, one of `Sessions`), so
that one run has a plugin driven by clicks, one with an automating host, and one in
which both load the same network.  The properties that hold for some of these only
say so, with `KeptApart(t)`: thread `t` is the audio thread, or the message thread and
no other loads.

`Prompt` is an assumption: the loader gets from un-suspending the plugin to the
reset of the output ring, two statements later, in less audio time than a network
collects before it serves (20480 samples): `window[t] < InitBlocks - 1`.

### RingBufferThreads

`SetSample`, `AdvanceWritePos`, `WrapWritePos` are the three writes of
`pushSample`; `CompareLoad` and `CountLoad` the two reads of `writePos` in
`getAvailableSamples`, then `PopSample`.  Samples carry their number modulo two
laps, so a sample of a former lap is told from a new one.  `loadsTwice` and
`blockSize` are chosen in `Init`: the source names `writePos` twice, an optimised
build may keep it in a register.

`misread` is a history variable: the audio thread has counted the ring while it was
empty and showed `writePos = capacity` (`LooksFull`).  What it pops then is a lap of old
audio; the properties of the module end there.  The guard of `SetSample` (`HasRoom`)
excludes an overrun.

The ring refines `SampleQueue` as a whole: `AdvanceWritePos` is its `Push`,
`PopSample` its `Pop`, every other access a stuttering step.  The queue's samples are
the numbers in the slots from `readPos` on; `got` is the number last popped, `call` the
last call, as the queue has them.

### ModelSelection

`select` are the two parameters, `model` what each session was made from.  The name
of a model is in three places: the processor's `juce::Value` (`value`, until
`setStateInformation` makes it an alias of the property in the state tree, `stored`),
and the knob (`label`).  `Name` is what the `juce::Value` says.  `Toggle` is a change of
SELECT with all its listeners: `OnnxProcessor` (internal model), `XYPad` (name) and the
editor (chooser), the last two only while the editor is open.  When SELECT goes off,
`XYPad` writes its own `network1Name` (`XYPad.h:95`), which nothing assigns: the name
becomes empty, not "Funk".  `Choose`, `Cancel` and `ChooseRemote` are the outcomes of
the chooser's callback; closing the editor or opening a second chooser destroys the
first one without calling back.

Taken from JUCE: listeners are called when a parameter's value changes, and at once;
a chooser is modal, so the user cannot click while one is open, but the host can
automate; `replaceState` sets every parameter before it returns.

`intruded` is a history variable: the host has set SELECT (by automation or a recalled
state) while a chooser was open, or switched it off by automation with no editor open,
so that no `XYPad` dropped the name.

### SignalPath

A sample is a number, NaN or one of the infinities.  `Receive` is `stereoToMono` and the
copies to the networks' buffers, `SplitSample` one sample in both transient splitters,
`Finish` the rest of `processBlock`, with `monoToStereo` and the last of the mixers:
`host` is the host's buffer, its block first and what it gets back at the end.  The dry
samples go into `dryWetMixer` before anything has looked at them (`PluginProcessor.cpp:197`)
and come out of a delay line (JUCE) at line 244.  Once one of them was not a number
(`tainted`, until `prepareToPlay` resets the mixer) the model leaves open what comes out,
and since 0 times NaN is NaN, this is so with the mix at fully wet as well.  `fast` is the `lastValue` of
the envelopes without an attack time, `slow` of the one that has one; they differ in
what NaN does to them.  Three sources of bad samples are in the code and not in the
host: a splitter divides 0 by 0 on silence; a network passes its input on while it
collects; `monoBuffer` and the make-up gain's buffers are resized and not cleared, so
`mono` starts as anything and the gain is anything until `warm` is 0.  A block shorter
than the prepared one leaves the tail of `monoBuffer` in place, which is the wet output
of the block before, and it is processed again.

`dirty` and `exposed` are history variables: the host has sent something that is no
number; a short block has come before the path had settled.  `Ready` stops the
behaviour after a block that wrote to a channel the host's buffer does not have: what
such a process does next is undefined.

### MakeUpGain

`Compressor::processBlock` reads `autoMakeUpGain` at its start and at its end, stores
the gain in linear form, ramps to it from `previousMakeUpGain` and converts it in place to
decibels; a chosen gain is multiplied with each sample as it is, without a ramp;
`parameterChanged` writes the switch and then the gain.  Each of these accesses is an
action.  A gain is a value with its unit, so that a linear gain taken for decibels, or a
conversion done twice, shows.  The two RMS rings are two indices, and whether the build
loads `makeUpGain` once or for every use is chosen in `Init`.  History variables:
`began`, `applied` and `ended` (the gain at the first and last sample of this block, and
at the last one of the block before), `overrun` (a chosen gain was written into the
automatic end of a block), `skewed` (auto changed inside a block), `unsteady` (a change
came within this block or the last one), `renewed` (one came since the last block ended).

### XYPad

`over` is the component under each pointer; `Move` is the exit of the old and the entry
of the new component, as JUCE sends them, and none while the modal chooser is open.
`Press` and `Release` begin and end the gesture of a knob, `Tick` is the hover timer's
callback, whose counter starts anew only when it has run out.  A screen with two touches
has two pointers, with one `knobOnDrag` for both.  Gestures (`touched`) belong to the
processor's parameters and survive the editor.

### Settings

Each parameter is copied by a constructor once and by `parameterChanged` ever after.
The module has those copies in which the two differ or in which the audio thread may
look in between: shaper (`attack`, `sustain`), grain-delay mix (`proportion`) and cutoff
(`enabled`, `tuned`).  `updateFilterParams` is four steps.  `processFilters` is its test
for NaN (`StartBlock`: with one in the block it returns, block `skipped`) and one step for
each filter;
`Prepare` takes the new sample rate and leaves the coefficients.  `changed`, `sides` and
`moved` are history variables for the exceptions the properties name: a shaper of 0.5
and more keeps full attack until it first changes, because
`ProcessorTransientSplitter.cpp:32` sets the attack twice and the sustain never; a mixer
stays dry until the mix changes; coefficients of a former sample rate stay until the
knob moves.

## 3. Runs

| Run | Question | Bounds |
|---|---|---|
| `ring_queue` | is the ring a queue? | capacities 1, 3, 4; samples 0, NaN and two more |
| `network_in_time` | is every block served in time? | model input 8, granted 8, ring 28, blocks 1 to 4, inferences < 6 |
| `network_late` | is the delay accounted for, and does it recover, when inferences are late and rings overrun? | model input 8, granted 2, ring 20, blocks 1, 2, 4, inferences < 13, host stops after more than 20 lost samples |
| `network_low_rate` | is the ring large enough at low sample rates? **No** | ring 8 for a model input of 8 |
| `loads` | are loads safe, by clicks, by an automating host, and of one network by both? | 2 networks, 3 collecting blocks, three ways of use |
| `ring_threads` | is the unlocked ring safe, with one load of `writePos` and with two? | 6 slots, blocks of 1, 2, 4 and 5 |
| `model_selection` | which model runs, under which name? | 2 networks, 2 files |
| `signal_path` | where do NaN and infinity get to? | 2 networks, blocks of 1 and 2, 2 collecting and 3 warm-up blocks, mono and stereo |
| `signal_mono` | does a mono host work? **No** | 1 network, blocks of 1 |
| `make_up_gain` | is the make-up gain the one chosen, and steady? | 2 ratios, 2 gains, rings of 3 blocks |
| `xy_pad` | do gestures end and buttons vanish? | 2 knobs, 2 pointers, hidden after 3 ticks |
| `settings` | does the signal path work with what the parameters say? | 1 network, 5 knob positions from -1 to 1, 2 sample rates |

**Why the bounds are enough.**  The real numbers are 16384, 4096, 48000 and blocks
of 64 to 2048.  What matters is their order and divisibility: a ring holds two
model inputs and the granted time, blocks divide the model input or do not, an
inference spans no, one or several callbacks, and ends within, at or beyond the
granted time.  Every one of these occurs above, rings wrap or overrun, and
prepares and loads come at any time.  For loads, two networks are what the plugin
has, and three collecting blocks leave the samples of a former model in the ring
for as long as it takes.  For the selection two networks are all there are, and two
files let one replace another; they are interchangeable (symmetry).  In `SignalPath`
blocks of two samples are enough to have a short block, a tail and a block of mixed
classes; with three blocks of warm-up (48000 samples in the code) and two of collecting
(20480) the warm-up ends last after a prepare, as in the code, and the collecting
after a later load.  Three ticks let a pointer leave, come back and
leave again before the timer runs out.  Networks share no setting but the sample
rate, so one is enough in `Settings`; its knob has positions below, in and above
the middle, and the parameters may go below 0 as their range allows.

`lost` is the one counter that would grow for ever; the host stops once it
exceeds `MaxLost`.  `inferenceCounter` is bounded by the ring: the delay law limits
it.  The runs check deadlock with two exceptions.  In `loads` the code really
can stop: a load in the spin loop leaves the plugin suspended and, if no other load
comes, nothing happens any more.  In the runs of `SignalPath` a process that has written
past a mono buffer is not followed any further.

**Fairness.**  `NetworkStream`: the host keeps calling, a callback ends, the worker
gets the processor; prepares and loads need not happen.  `ModelLoading`: the same
for callbacks, workers and each step of a load; strong fairness for the two steps
that take the callback lock, which the audio thread frees and takes again without
end (a fair lock); none for the host's callbacks, as it may stop playing.
`RingBufferThreads`: both threads go on.  `SignalPath`: the host keeps calling; nothing
is assumed of prepares and loads, and `Settles` is about those that come to an end.
`XYPad`: a running timer ticks; nothing is assumed of the user.

### What the runs show

* `ImplementsQueue`: the ring is a queue of `capacity - 1` samples.
* `ImplementsDelayLine`: what the network owes, `recv + toPush + out + lost - stray`,
  fills up to the reported latency, and from then on is the latency plus one block per
  block counted late.  Three pieces of code have to agree for this:
  `calculateLatency`, the end of `init`, `inferenceCounter`.  (`DelayLaw` says the same
  of every state, inside a callback too; it is proved.)
* `NeverMisses`, `NothingLost`: with inferences two samples shorter than the granted
  time, whether the block size divides the model input or not.  One sample more and TLC
  finds a missed block.  `KeepsUp`, which the proofs assume, holds of this run's
  constants; of 152 other small instances tried with TLC, those in which a block
  was missed are those whose latency it finds too short.
* `Recovers`: if inferences are late and then are not any more, skipping brings the
  delay back.  This needs a block size that divides the model input: with blocks of 3,
  TLC finds behaviours in which a late block is owed for ever, because two blocks are
  never there at once.
* `SessionSafe`, `RingAlone`, `FormerNeverServed`, `ResetAlone`: for loads of the message
  thread as long as it alone loads, because the callback lock keeps the callback out of
  them, and for the host's loads always, because these run on the callback's own thread
  (`KeptApart`).  **Mixed, none of the four holds** for the load of the message thread, even
  if it is of another network: the host's load, when it ends, un-suspends the plugin under
  it.  A callback may then be past its test of `loadingModel` (`InferenceThread.cpp:33`)
  when the load raises the flag (150) and finds no thread (152), and the worker it starts
  (39) runs the session being replaced (166).  TLC finds this, and the like for the other
  three, if `KeptApart` is left out.
* `Unsuspends` has two exceptions, which are in the code.  A load that
  meets a running worker stops it and then waits for it to run
  (`while (!isThreadRunning())`, `InferenceThread.cpp:112` and `:155`).  As the plugin
  is suspended and `loadingModel` is set, nothing starts it: the message thread hangs.
  (Only another load of the same network, by the other thread, can free it: by
  un-suspending the plugin and clearing the flag, so that the audio thread starts the
  worker.)  And a file that is no model makes `Ort::Session` throw past every reset.
* `network_low_rate` is a finding: at a sample rate of 16384 Hz or less the ring of
  one second cannot hold a model input, and the network never runs.
* `SharedRingIsQueue`, `CountedIsThere`, `Flows`, `NoFalseMiss`: the ring needs no lock, as
  long as stores are seen in program order, **but for one case**: it is empty, its last
  slot has just been pushed and popped, and the audio thread counts while `writePos` shows
  the value `capacity`, before it wraps.  `getAvailableSamples()` returns `capacity` and a
  lap of old audio is served again.  The case is in the model (`misread`), the properties
  hold up to it, and TLC finds them violated if they leave it out.  It needs a
  callback that starts with an empty ring; `OutputInTime` (section 4) says that on a
  machine that keeps up there is none.  With the second load of `writePos` a block that is
  there may be taken for missing: `NoFalseMiss` holds for one load only.
* `ExternalIsNamed`: holds whatever the user and an automating host do, but not once the
  processor was given a state: `setStateInformation` renames without loading, and tells
  the open editor nothing.
* `OffIsBuiltIn`, `ChooserIsWanted`: hold unless the host intrudes.  If SELECT goes off
  under an open chooser, the file then chosen is loaded all the same
  (`PluginEditor.cpp:143`); if it goes off while no editor is open, the internal model
  keeps the name of the file. 
* The converse does not hold: SELECT may be on while the internal model runs, after a
  recall, a remote file, or a chooser that was destroyed.  No property claims it.
* `ChooserNeedsEditor`: always, which is what makes the captured `this` of
  `PluginEditor.cpp:57` and `:126` safe: an external load comes from a chooser only.
* `InsideFinite`: the filters look for NaN only, and an infinity would stay in one for
  good; but the splitter before them makes NaN of every infinity, and the ring behind
  them makes 0 of NaN.  So neither is ever given anything but numbers, by code in three
  places none of which knows of the others.
* `SettledFinite`, `Settles`: silence makes NaN in the splitters, which the networks do not
  hear, but while a network collects it passes to the mix, the compressor and the host.
  Once both serve and the make-up gain's buffers are filled the wet signal is finite and
  stays so, whatever the host sends and even if the envelopes hold NaN for good.  What
  the host gets back is finite as well if it has sent numbers since `prepareToPlay`; its own
  NaN or infinity it gets back through the dry path.
* `EnvelopesFinite`: an envelope without attack time never gets rid of a NaN, not by
  `prepare` either.  The host has to send one, or a short block while the path still
  collects, whose tail then is the plugin's own NaN; nothing else does it.
* `signal_mono` is a finding (`WritesHostChannels`): `isBusesLayoutSupported` accepts mono, but `monoToStereo`
  asks `monoBuffer` for its channels, not the host's buffer, and writes channel 1.
* `ChosenGainKept`, `RingsAligned`, `JumpsWhenChosen`: switching between automatic and
  chosen gain at any memory access.  A gain chosen is lost only if it is written into
  the automatic end of a block (the audio thread then stores its own); the levels
  compared are of different blocks only if auto changed inside one.  The gain does jump,
  at the first sample of a block, when the parameter was set to a chosen gain since the
  block before, because no ramp leads to that one; it jumps nowhere else, and from a
  chosen gain to automatic there is always a ramp (blocks a change falls into,
  and the block after such a one, are left out).
* `ShownIsWatched`, `ComesToRest`: what is visible is what the timer will hide, unless
  the chooser swallowed the exit.  The counter is not reset when the timer starts, so
  buttons may vanish early; no property forbids it, as nothing says how long they stay.
* `GesturesEnd`: the host sees the end of every gesture, unless a second touch takes the
  drag over to the other knob or the editor is closed during one.
* `SettingsFollow`, `FilterFollows`, `FilteredOnce`: with the exceptions named above.  A block
  with a NaN, which every silent one is behind the splitter, goes through neither filter
  wherever the knob stands (`IIRCutoffFilter.cpp:99`); `FilteredOnce` is about the others.
  While the knob crosses the middle a block may go through both filters or neither, and
  in the very middle neither is enabled (its high-pass would cut at exactly 20 Hz).

Each property of a passing run has a mutant: a definition with a plausible bug
(`PROJECT.json`, `mutants`), for which the same run fails.  The mutated definitions
stand in the modules, before the ones they replace, and are used nowhere else.

## 4. Proofs

All theorems hold for every value of the constants that the modules' `ASSUME`s
allow, and for more only where said.

* `RingBufferProofs`: `TypeCorrect` by induction over `TypeOK`, which is inductive.
  `RingIsQueue`: under `TypeOK` every step of the ring is a step of the queue,
  action by action; a push is an `Append` or empties the sequence, by lemmas about
  `Available` and `Slot` after an advance of either position.
* `NetworkStreamProofs`: `DelayIsReported` needs more than `DelayLaw`: the reported
  latency is that of the current block size, a collecting network has sent whole
  blocks and fewer than `getLatency()`, an idle worker has nothing to push, and a
  block under way is a full one (`DelayInv`).  The step that ends collecting
  uses `LatencyIsMultiple`: the latency is the only multiple of the block size that is
  below `getLatency()` and reaches it with one block more.  `NetworkIsDelayLine` maps
  each step to one of the delay line or a stutter, under the same invariant;
  `LatencyBounds` is why the line is not full while the network collects.

  `NoMisses`, `RingsSuffice` and `OutputInTime` assume `KeepsUp`, a condition on the
  constants, and share `TimelyInv`.  A worker that was at work when the host prepared
  is *stale* until it is gone, which is before the network has collected enough;
  any other is *fresh* and has seen whole blocks since it started, so at most
  `LongestRun` samples.  The unread input is always a multiple of every common divisor
  of block and model input, so a worker that starts leaves at most `b - g` of it.
  Input and inference together are then never more than the latency, and what is served
  has been pushed.  `OutputInTime` says it of the moment at which `processOutput`
  counts: the block is there, so the output ring is not empty, and the case that
  `RingBufferThreads` leaves out does not come.  `PushedOneByOne` justifies counting a block at once: it keeps and forgets what
  as many single `Push`es of `SampleQueue` do.
* `ModelLoadingProofs`: only the callback starts workers.  A load of the audio thread runs
  outside of it (`AudioInv`).  If the message thread alone loads, the plugin is suspended
  and no callback is under way between *suspend* and *unsuspend*; after it the flag is
  up, so that a callback does not get past its test (`MessageInv`).  So while a load that
  is kept apart is between *check* (found idle) and *lower*, its worker is idle and none is
  about to be started (`ApartInv`), which gives `SessionNotReplacedInUse` and
  `OutputResetAlone`; `InputRingAlone` and `FormerModelSilent` have the same condition.
  The exceptions of `Unsuspends` are theorems too.  A load that spins does so
  for ever (`StoppedLoadHangs`), as the flag it raised keeps its worker from being
  started, and the plugin is silent with it (`HangSilencesForEver`); after a throw it
  is until the next load (`FailureSilences`).  And there are no others: a suspended
  plugin always has a load that is to end it, or one of these two
  (`SuspensionHasOwner`, whoever loads).
* `ModelSelectionProofs`: `TypeCorrect` and `ChooserWithinEditor`, which is inductive as
  it is; `ExternalModelsNamed` from these.  `OffNetworksBuiltIn` needs more than its two
  properties: while the names are not linked to the tree, the tree has the built-in
  ones, so that a state saved then names no file.  `ChooserForOnNetworks` rests on the
  same invariant.
* `RingBufferThreadsProofs`: the invariant says where both positions are for the numbers
  of samples pushed and popped (`PositionsFollow`), which numbers the slots hold
  (`SlotsHold`), and that what the audio thread has counted is not more than what is
  there (`CountsRight`).  These three are claimed until `misread`; that the positions stay in
  the ring, always.  `SharedRing`, the refinement of `SampleQueue`, follows for any
  ring and both kinds of build: at each push and pop the slots from `readPos` on are
  the queue after it.  A push that would overrun is excluded by the guard of `SetSample`
  (`HasRoom`; under `KeepsUp` it is true, by `RingsSuffice`); `RingIsQueue` has the overruns.
  `CountedStays` follows likewise, `BlocksAreFound` for one load.
* `SignalPathProofs`: the four invariants need three more: the samples split so far in this
  block are numbers or NaN (`SplitSoFar`), which is why looking for NaN suffices, and
  what the mix-down took over is finite unless the host or a short block spoilt it
  (`MixFinite`); and every sample of the host's block is one of the mix (`HostInMix`).
* `MakeUpGainProofs`: each invariant of the run, one step per action.  `JumpsOnlyWhenChosen`
  follows the gain at the end of a block to where the next one takes it up:
  `previousMakeUpGain` (`GainFollowed`, `GainFollows`), and `makeUpGain` itself as long as a
  chosen one is not changed (`ChosenFollows`).
* `ParametersProofs`: the same for `XYPad` and for `Settings`.  The latter's properties
  follow from one invariant (`SInv`) that has two more parts: what each step of a cutoff
  update has already done to the two filters (`FilterInSteps`), and that the sides a
  block has met cover both ends of the update under way (`SidesCover`), without which
  `FilteredOnce` is not inductive.

With these, every safety property, action property and refinement of the passing runs
is a theorem.  Only model-checked: the liveness properties `Recovers`, `Unsuspends`,
`Flows`, `Settles` and `ComesToRest` (fairness and `ENABLED` are out of the prover's
reach); that `KeepsUp` is necessary was only tried.  Facts taken as
environment: `RunTime`, `Prompt`, the JUCE facts (the callback lock, `startThread` on a
running thread does nothing, `stopThread` waits and then kills, a suspended plugin gets
a cleared buffer, `DryWetMixer::reset` clears the delay line).  `RingBufferThreads` assumes a
ring that does not overrun, and says nothing past `misread`; under `KeepsUp` neither comes
(`RingsSuffice`, `OutputInTime`).

## 5. Not modelled, and why

* **Vendored code.**  `modules/RnboExport` and the headers of `modules/onnxruntime` have
  more than ten times the lines of `source` (some 6000), and none of it is Scyclone's: C++ generated by RNBO with its run-time library, and an API that is only
  called.  Of its own lines roughly half is layout, painting, OpenGL and parameter
  declarations, which keep no state other parts depend on.  The models therefore stand
  for a small share of all lines, and for most of those that decide anything.
* **Samples.**  What the models, filters, RNBO patches and the compressor's curve do to
  audio is floating-point arithmetic; only its classes are modelled.
* **Level analyser, audio visualiser**: an atomic level and a display.
* **Memory.**  A `prepare` that frees ring memory under a pushing worker
  (`OnnxProcessor.cpp:44`), coefficients replaced while a filter reads them, and a short
  block that makes `monoToStereo` write more samples than the host's buffer has: the
  models have no memory to free.  `NetworkStream` makes the prepare atomic.
* **`InferenceThread.cpp:13`**: the destructor releases the session before it stops the
  worker; what a released session returns is ONNX Runtime's undefined behaviour.
* **`InferenceThread.cpp:76`**: a `session.Run` that throws leaves the former output in
  its vector, which is pushed once more; `NetworkStream` has numbers of samples only, and
  these are right.
* **`InferenceThread.cpp:138`**: a model loaded before the first `prepareToPlay` prepares
  with a `last_spec` that nobody has set.
* **Dead code**: `isMuted` (set wrongly by `setInitialMuteParameters`, read by nothing),
  `setMuted` of the filters, the Expander type of the compressor.
* **Weak memory ordering** (arm64 builds) is assumed away in `RingBufferThreads`.

## 6. What is left

`ModelLoading` with the load at construction, the destructor and a `prepareToPlay`
that overlaps a load.
