---------------------------- MODULE SignalPath ----------------------------
(***************************************************************************)
(* AudioPluginAudioProcessor::processBlock and what NaN and infinity do on *)
(* their way through it: the mono mix-down, the transient splitters with   *)
(* their envelopes, the cutoff filters, the networks and the automatic     *)
(* make-up gain of the compressor, and past them: the host's own samples   *)
(* are mixed into the output.  A sample is abstracted to its class.        *)
(* Three sources of bad samples are in the code itself: the splitters      *)
(* divide 0 by 0 on silence, a network passes its input on until it has    *)
(* collected enough of it, and monoBuffer and the make-up gain's buffers   *)
(* start as uninitialised memory.                                          *)
(*                                                                         *)
(* Gains, mixes and coefficients are finite and positive, so they keep a   *)
(* class; a finite sample never overflows; the grain delays are off and    *)
(* the make-up gain automatic, their defaults.  Networks are modelled in   *)
(* NetworkStream: given finite samples they return finite ones.  What the  *)
(* mixer's delay line (JUCE) makes of a bad sample is left open.           *)
(***************************************************************************)
EXTENDS Integers

CONSTANTS
    Networks,      \* the two networks, each with its splitter and its filter
    BlockSize,     \* samplesPerBlock of prepareToPlay
    CollectBlocks, \* blocks in which a network collects its first input
    WarmBlocks,    \* blocks until the make-up gain has seen no memory but its own
    Layouts        \* channel counts the host may choose

ASSUME SignalAssumption == /\ BlockSize \in Nat \ {0}
                           /\ CollectBlocks \in Nat \ {0}
                           /\ WarmBlocks \in Nat \ {0}
                           /\ Layouts \subseteq {1, 2} /\ Layouts # {}

VARIABLES
    channels,  \* channels of the host's buffers
    host,      \* the host's buffer: its block, then what it gets back
    tainted,   \* has dryWetMixer got a bad sample since it was prepared?
    mono,      \* monoBuffer
    buf,       \* network1Buffer and network2Buffer
    pos,       \* the next sample to split; 0 between two calls of processBlock
    fast,      \* lastValue of detector and of envelope1, attack time 0
    slow,      \* lastValue of envelope2, attack time above 0
    filter,    \* the state of the IIR filters
    left,      \* blocks a network still collects
    heard,     \* classes of the samples put into a network's ring
    warm,      \* blocks the make-up gain still depends on uninitialised memory
    written,   \* channels of the host's buffer written by the last block
    dirty,     \* history: has the host sent a sample that is not a number?
    exposed    \* history: has a short block come before the path had settled?

vars == <<channels, host, tainted, mono, buf, pos, fast, slow, filter, left, heard,
          warm, written, dirty, exposed>>

Class == {"num", "nan", "inf", "-inf"}

Blocks == UNION {[1 .. n -> Class] : n \in 1 .. BlockSize}

NoBlock == [i \in {} |-> "num"]

Finite(block) == \A i \in DOMAIN block : block[i] = "num"
HasNaN(block) == \E i \in DOMAIN block : block[i] = "nan"

TypeOK == /\ channels \in Layouts
          /\ host \in Blocks \cup {NoBlock} /\ tainted \in BOOLEAN
          /\ mono \in Blocks
          /\ channels = 2 => DOMAIN mono = 1 .. BlockSize
          /\ pos \in 0 .. BlockSize + 1
          /\ buf \in [Networks -> [DOMAIN mono -> Class]]
          /\ fast \in [Networks -> Class] /\ slow \in [Networks -> Class]
          /\ filter \in [Networks -> {"num", "nan"}]
          /\ left \in [Networks -> 0 .. CollectBlocks]
          /\ heard \in [Networks -> SUBSET Class]
          /\ warm \in 0 .. WarmBlocks
          /\ written \in {0, 2}
          /\ dirty \in BOOLEAN /\ exposed \in BOOLEAN

-----------------------------------------------------------------------------
(***************************************************************************)
(* Floating point.                                                         *)
(***************************************************************************)
Sum(S) == IF "nan" \in S \/ {"inf", "-inf"} \subseteq S THEN "nan"
          ELSE IF "inf" \in S THEN "inf"
          ELSE IF "-inf" \in S THEN "-inf" ELSE "num"

\* Comparisons whose outcome the classes decide; any with NaN is false.
Below(a, b) == <<a, b>> \in {<<"-inf", "num">>, <<"-inf", "inf">>, <<"num", "inf">>}

Distance(a, b) == IF a = "nan" \/ b = "nan" \/ (a = b /\ a # "num") THEN "nan"
                  ELSE IF a = "num" /\ b = "num" THEN "num" ELSE "inf"

-----------------------------------------------------------------------------
(***************************************************************************)
(* Envelope::processBlock: the new lastValue.  Without an attack time a    *)
(* louder sample is taken over as it is; nothing takes NaN out again.      *)
(***************************************************************************)
Follow(last, x) == IF Below(last, x) THEN x ELSE Sum({last, x})

FollowSlowly(last, x) == Sum({IF last = "nan" THEN "num" ELSE last, x})

(***************************************************************************)
(* TransientSplitter::processBlock: the share of attack in a sample,       *)
(* std::min(attack / detector, 1), is NaN for 0/0 (silence), and then for  *)
(* NaN and infinity over infinity; and the sample put back.                *)
(***************************************************************************)
Share(attack, detector) ==
    IF attack = "nan" \/ detector = "nan" \/ (attack = "inf" /\ detector # "num")
    THEN {"nan"}
    ELSE IF attack = "num" /\ detector = "num" THEN {"num", "nan"} ELSE {"num"}

SplitInto(e1, e2, x) ==
    {IF share = "nan" \/ x = "num" THEN share ELSE y :
        share \in Share(Distance(e1, e2), e1), y \in {x, "nan"}}

(***************************************************************************)
(* RingBuffer::pushSample, into and out of the network.                    *)
(***************************************************************************)
Sanitise(x) == IF x = "nan" THEN "num" ELSE x

(***************************************************************************)
(* What a network returns, having heard these classes.                     *)
(***************************************************************************)
Inferred(classes) == IF classes \subseteq {"num"} THEN {"num"} ELSE Class

(***************************************************************************)
(* OnnxProcessor::processOutput, with init as sendAudio() has just left    *)
(* it: the block passes as it is while the network collects.               *)
(***************************************************************************)
\* Mutant: a block whose samples are missing is left as it is, not cleared.
OutputMissing(collecting, block, x) == block

Output(collecting, block, x) ==
    IF collecting > 0 THEN block ELSE [i \in DOMAIN block |-> Sanitise(x)]

(***************************************************************************)
(* The countdown of a warm-up, as init_samples of sendAudio().             *)
(***************************************************************************)
\* Mutants: the count goes on below zero; or the last block is never counted.
OneLessUnchecked(n) == n - 1
OneLessStuck(n) == IF n <= 1 THEN n ELSE n - 1

OneLess(n) == IF n = 0 THEN 0 ELSE n - 1

(***************************************************************************)
(* Compressor::processBlock with the automatic make-up gain: a ramp to the *)
(* ratio of two RMS levels, of buffers that setSize() does not clear.      *)
(***************************************************************************)
Ramped(warming, x) == IF warming > 0 /\ x # "nan" THEN Class ELSE {x}

(***************************************************************************)
(* monoToStereo(): getWritePointer(0) and getWritePointer(1).              *)
(***************************************************************************)
ChannelsWritten == 2

-----------------------------------------------------------------------------
(***************************************************************************)
(* prepareToPlay(): the buffers are resized and not cleared, filters and   *)
(* mixers are reset, the envelopes are not.                                *)
(***************************************************************************)
Prepared == /\ channels \in Layouts
            /\ host = NoBlock /\ tainted = FALSE
            /\ mono \in [1 .. BlockSize -> Class]
            /\ buf = [n \in Networks |-> mono]
            /\ pos = 0
            /\ filter = [n \in Networks |-> "num"]
            /\ left = [n \in Networks |-> CollectBlocks]
            /\ warm = WarmBlocks
            /\ written = 0

Init == /\ Prepared
        /\ fast = [n \in Networks |-> "num"]
        /\ slow = [n \in Networks |-> "num"]
        /\ heard = [n \in Networks |-> {}]
        /\ dirty = FALSE
        /\ exposed = FALSE

\* Between two blocks, in a process that has not crashed.
Ready == pos = 0 /\ written <= channels

Prepare == /\ Ready
           /\ channels' \in Layouts
           /\ host' = NoBlock /\ tainted' = FALSE
           /\ mono' \in [1 .. BlockSize -> Class]
           /\ buf' = [n \in Networks |-> mono']
           /\ pos' = 0
           /\ filter' = [n \in Networks |-> "num"]
           /\ left' = [n \in Networks |-> CollectBlocks]
           /\ warm' = WarmBlocks
           /\ written' = 0
           /\ UNCHANGED <<fast, slow, heard, dirty, exposed>>

(***************************************************************************)
(* Another model is loaded into network n while processing is suspended.   *)
(***************************************************************************)
Reload(n) == /\ Ready
             /\ left' = [left EXCEPT ![n] = CollectBlocks]
             /\ heard' = [heard EXCEPT ![n] = {}]
             /\ UNCHANGED <<channels, host, tainted, mono, buf, pos, fast, slow,
                            filter, warm, written, dirty, exposed>>

(***************************************************************************)
(* Everything behind the networks returns finite samples.                  *)
(***************************************************************************)
Settled == warm = 0 /\ \A n \in Networks : left[n] = 0

(***************************************************************************)
(* The start of processBlock.  dryWetMixer takes the host's samples as     *)
(* they are; stereoToMono() overwrites as many samples as the host sends,  *)
(* leaving the wet output of the block before behind them; with one        *)
(* channel makeCopyOf() resizes.                                           *)
(***************************************************************************)
\* Mutant: the last sample is not copied.
MixedShort(block) ==
    [i \in DOMAIN mono |-> IF i + 1 \in DOMAIN block THEN block[i] ELSE mono[i]]

Mixed(block) ==
    IF channels = 1 THEN block
    ELSE [i \in 1 .. BlockSize |-> IF i \in DOMAIN block THEN block[i] ELSE mono[i]]

Receive(block) ==
    /\ Ready
    /\ host' = block
    /\ tainted' = (tainted \/ ~Finite(block))
    /\ mono' = Mixed(block)
    /\ buf' = [n \in Networks |-> Mixed(block)]
    /\ pos' = 1
    /\ dirty' = (dirty \/ ~Finite(block))
    /\ exposed' = (exposed \/ (DOMAIN Mixed(block) # DOMAIN block /\ ~Settled))
    /\ UNCHANGED <<channels, fast, slow, filter, left, heard, warm, written>>

(***************************************************************************)
(* One sample in both transient splitters.                                 *)
(***************************************************************************)
SplitSample ==
    /\ pos \in DOMAIN mono
    /\ fast' = [n \in Networks |-> Follow(fast[n], buf[n][pos])]
    /\ slow' = [n \in Networks |-> FollowSlowly(slow[n], buf[n][pos])]
    /\ \E out \in [Networks -> Class] :
          /\ \A n \in Networks :
                out[n] \in SplitInto(fast'[n], slow'[n], buf[n][pos])
          /\ buf' = [n \in Networks |-> [buf[n] EXCEPT ![pos] = out[n]]]
    /\ pos' = pos + 1
    /\ UNCHANGED <<channels, host, tainted, mono, filter, left, heard, warm,
                   written, dirty, exposed>>

(***************************************************************************)
(* IIRCutoffFilter::processFilters: a block with a NaN in it is left       *)
(* alone; an infinity would stay in the filter for good.                   *)
(***************************************************************************)
\* Mutant: the test for NaN is missing.
SkipsNothing(block) == FALSE

Skips(block) == HasNaN(block)

FilterState(state, block) ==
    IF Skips(block) \/ Finite(block) THEN state ELSE "nan"

Filtered(state, block) ==
    IF Skips(block) THEN block
    ELSE [i \in DOMAIN block |-> IF Finite(block) THEN state ELSE "nan"]

(***************************************************************************)
(* DryWetMixer: the host's samples of earlier, out of a delay line, and    *)
(* the wet ones.  A dry gain of 0 does not keep NaN or infinity out.       *)
(***************************************************************************)
Delayed == IF tainted THEN Class ELSE {"num"}

DryWet(wet) == {Sum({dry, wet}) : dry \in Delayed}

(***************************************************************************)
(* The rest of processBlock: filters, networks, on/off, mix, make-up gain, *)
(* the copy to both channels of the host, existing or not, and the dry     *)
(* signal.  enabled: the networks one of whose filters is enabled; on:     *)
(* those switched on.                                                      *)
(***************************************************************************)
Finish ==
    /\ pos > 0 /\ pos \notin DOMAIN mono
    /\ \E enabled, on \in SUBSET Networks, inferred \in [Networks -> Class] :
        LET block(n) == IF n \in enabled THEN Filtered(filter[n], buf[n]) ELSE buf[n]
            out(n) == Output(left'[n], block(n), inferred[n])
            mix(i) == Sum({out(n)[i] : n \in on})
        IN  /\ filter' = [n \in Networks |->
                  IF n \in enabled THEN FilterState(filter[n], buf[n]) ELSE filter[n]]
            /\ heard' = [n \in Networks |->
                  heard[n] \cup {Sanitise(block(n)[i]) : i \in DOMAIN mono}]
            /\ left' = [n \in Networks |-> OneLess(left[n])]
            /\ warm' = OneLess(warm)
            /\ \A n \in Networks : inferred[n] \in Inferred(heard'[n])
            /\ mono' \in [DOMAIN mono -> Class]
            /\ \A i \in DOMAIN mono : mono'[i] \in Ramped(warm', mix(i))
    /\ buf' = [n \in Networks |-> mono']
    /\ host' \in [DOMAIN host -> Class]
    /\ \A i \in DOMAIN host : host'[i] \in DryWet(mono'[i])
    /\ pos' = 0
    /\ written' = ChannelsWritten
    /\ UNCHANGED <<channels, tainted, fast, slow, dirty, exposed>>

ProcessBlock == (\E block \in Blocks : Receive(block)) \/ SplitSample \/ Finish

Restart == Prepare \/ \E n \in Networks : Reload(n)

Next == ProcessBlock \/ Restart

(***************************************************************************)
(* The host keeps calling processBlock while it plays.                     *)
(***************************************************************************)
Spec == Init /\ [][Next]_vars /\ WF_vars(ProcessBlock)

-----------------------------------------------------------------------------
(***************************************************************************)
(* The filters never keep a NaN or an infinity, whatever the host sends:   *)
(* NaN is looked for, and infinity becomes NaN in the splitter before,     *)
(* because detector and envelope1 have jumped to it (IIRCutoffFilter.cpp,  *)
(* processFilters; Envelope.cpp, attack time 0).                           *)
(***************************************************************************)
FiltersFinite == \A n \in Networks : filter[n] = "num"

(***************************************************************************)
(* No network is ever given anything but numbers, whatever the host sends  *)
(* and the splitters make of silence (RingBuffer.cpp, pushSample).         *)
(***************************************************************************)
HeardFinite == \A n \in Networks : heard[n] \subseteq {"num"}

(***************************************************************************)
(* Past the splitters there are only numbers: in the filters as well as in *)
(* what the networks are given, whatever the host sends and in whatever    *)
(* order blocks, prepares and loads come (IIRCutoffFilter.cpp,             *)
(* processFilters; RingBuffer.cpp, pushSample).                            *)
(***************************************************************************)
InsideFinite == FiltersFinite /\ HeardFinite

(***************************************************************************)
(* Once both networks serve and the make-up gain has warmed up, the wet    *)
(* signal is finite, whatever the host has sent and even if the envelopes  *)
(* hold NaN for good; what the host gets back is finite unless it has sent *)
(* something else since prepareToPlay, which the dry path hands through    *)
(* (PluginProcessor.cpp, processBlock; OnnxProcessor.cpp, processOutput).  *)
(***************************************************************************)
SettledFinite == pos = 0 /\ Settled =>
                     Finite(mono) /\ (tainted \/ Finite(host))

(***************************************************************************)
(* The plugin does not poison its own envelopes: as long as the host has   *)
(* sent numbers, and no short block before the path had settled, the tail  *)
(* of monoBuffer that is processed again holds numbers and so do the       *)
(* envelopes (PluginProcessor.cpp, stereoToMono; Envelope.cpp).            *)
(***************************************************************************)
EnvelopesFinite == ~dirty /\ ~exposed =>
                       \A n \in Networks : fast[n] = "num" /\ slow[n] = "num"

(***************************************************************************)
(* The wet signal becomes and stays finite when the host keeps playing in  *)
(* stereo without another prepareToPlay or model load, whatever it has     *)
(* sent and sends; and so does what the host gets back, if it sends        *)
(* numbers only (InferenceThread.cpp, sendAudio: init ends;                *)
(* PluginProcessor.cpp, dryWetMixer).                                      *)
(***************************************************************************)
Settles == <>[][~Restart]_vars /\ <>[](channels = 2)
               => <>[](pos = 0 => Finite(mono) /\ (tainted \/ Finite(host)))

(***************************************************************************)
(* "In this template code we only support mono or stereo": a block writes  *)
(* only to channels the host's buffer has (PluginProcessor.cpp,            *)
(* isBusesLayoutSupported and monoToStereo).                               *)
(***************************************************************************)
WritesHostChannels == written <= channels
=============================================================================
