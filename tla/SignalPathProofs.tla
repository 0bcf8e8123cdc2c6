------------------------- MODULE SignalPathProofs -------------------------
(***************************************************************************)
(* Which samples can be bad where, for any number of networks, any block   *)
(* size and any warm-up times.                                             *)
(***************************************************************************)
EXTENDS SignalPath, TLAPS

USE SignalAssumption

(***************************************************************************)
(* A block in the middle of the splitters: what is done holds no infinity, *)
(* what is to do is still the mono mix, which is finite unless the host    *)
(* or a short block made it otherwise.                                     *)
(***************************************************************************)
SplitSoFar == pos > 0 => \A n \in Networks : \A i \in DOMAIN mono :
                  IF i < pos THEN buf[n][i] \in {"num", "nan"}
                             ELSE buf[n][i] = mono[i]

(***************************************************************************)
(* The mono mix is at least as long as the host's block.                   *)
(***************************************************************************)
HostInMix == pos > 0 => DOMAIN host \subseteq DOMAIN mono

MixFinite == pos > 0 /\ ~dirty /\ ~exposed => Finite(mono)

IInv == /\ TypeOK /\ FiltersFinite /\ HeardFinite /\ SettledFinite
        /\ EnvelopesFinite /\ SplitSoFar /\ HostInMix /\ MixFinite

-----------------------------------------------------------------------------
LEMMA SumInClass ==
  ASSUME NEW S
  PROVE  Sum(S) \in Class
BY DEF Sum, Class

LEMMA SumNumbers ==
  ASSUME NEW S \in SUBSET {"num"}
  PROVE  Sum(S) = "num"
<1>1. "nan" \notin S /\ "inf" \notin S /\ "-inf" \notin S
  OBVIOUS
<1> QED BY <1>1 DEF Sum

(***************************************************************************)
(* An envelope's value is again of some class, and a number if the sample  *)
(* and the value before were.                                              *)
(***************************************************************************)
LEMMA EnvelopeClass ==
  ASSUME NEW l \in Class, NEW x \in Class
  PROVE  /\ Follow(l, x) \in Class
         /\ FollowSlowly(l, x) \in Class
         /\ l = "num" /\ x = "num" => Follow(l, x) = "num" /\ FollowSlowly(l, x) = "num"
<1>1. Follow(l, x) \in Class /\ FollowSlowly(l, x) \in Class
  BY SumInClass DEF Follow, FollowSlowly
<1>2. ASSUME l = "num", x = "num" PROVE Sum({l, x}) = "num" /\ ~Below(l, x)
  BY <1>2, SumNumbers DEF Below
<1> QED BY <1>1, <1>2 DEF Follow, FollowSlowly

(***************************************************************************)
(* An infinite sample puts infinity or NaN into the envelope without       *)
(* attack time.                                                            *)
(***************************************************************************)
LEMMA FollowsInfinity ==
  ASSUME NEW l \in Class, NEW x \in {"inf", "-inf"}
  PROVE  Follow(l, x) # "num"
BY DEF Follow, Below, Sum, Class

(***************************************************************************)
(* A splitter lets no infinity through: the detector is infinite as well   *)
(* and the share is NaN.                                                   *)
(***************************************************************************)
LEMMA SplitsFinite ==
  ASSUME NEW l \in Class, NEW e \in Class, NEW x \in Class
  PROVE  SplitInto(Follow(l, x), e, x) \in SUBSET {"num", "nan"}
<1>1. CASE x \in {"num", "nan"}
  BY <1>1 DEF SplitInto, Share
<1>2. CASE x \in {"inf", "-inf"}
  <2> DEFINE f == Follow(l, x)
  <2>1. f \in {"nan", "inf", "-inf"}
    BY <1>2, FollowsInfinity, EnvelopeClass DEF Class
  <2> HIDE DEF f
  <2>2. Distance(f, e) \in {"nan", "inf"}
    BY <2>1 DEF Distance, Class
  <2>3. Share(Distance(f, e), f) = {"nan"}
    BY <2>1, <2>2 DEF Share
  <2>4. SplitInto(f, e, x) \in SUBSET {"num", "nan"}
    BY <2>3 DEF SplitInto
  <2> QED BY <2>4 DEF f
<1> QED BY <1>1, <1>2 DEF Class

-----------------------------------------------------------------------------
(***************************************************************************)
(* The shape of a block.                                                   *)
(***************************************************************************)
LEMMA BlockShape ==
  ASSUME NEW b \in Blocks
  PROVE  \E k \in 1 .. BlockSize : b \in [1 .. k -> Class] /\ DOMAIN b = 1 .. k
BY DEF Blocks

LEMMA FullBlock ==
  ASSUME NEW b \in [1 .. BlockSize -> Class]
  PROVE  b \in Blocks /\ DOMAIN b = 1 .. BlockSize
<1>1. BlockSize \in 1 .. BlockSize
  OBVIOUS
<1> QED BY <1>1 DEF Blocks

LEMMA MixedShape ==
  ASSUME TypeOK, NEW b \in Blocks
  PROVE  /\ Mixed(b) \in Blocks
         /\ channels = 2 => DOMAIN Mixed(b) = 1 .. BlockSize
         /\ DOMAIN b \subseteq DOMAIN Mixed(b)
         /\ \A i \in DOMAIN Mixed(b) : \/ i \in DOMAIN b /\ Mixed(b)[i] = b[i]
                                       \/ /\ DOMAIN Mixed(b) # DOMAIN b
                                          /\ i \in DOMAIN mono /\ Mixed(b)[i] = mono[i]
<1>1. CASE channels = 1
  BY <1>1 DEF Mixed
<1>2. CASE channels = 2
  <2>1. PICK k \in 1 .. BlockSize : b \in [1 .. k -> Class] /\ DOMAIN b = 1 .. k
    BY BlockShape
  <2>2. mono \in [1 .. BlockSize -> Class]
    BY <1>2 DEF TypeOK, Blocks
  <2>3. Mixed(b) = [i \in 1 .. BlockSize |-> IF i \in DOMAIN b THEN b[i] ELSE mono[i]]
    BY <1>2 DEF Mixed
  <2>4. Mixed(b) \in [1 .. BlockSize -> Class]
    BY <2>1, <2>2, <2>3
  <2>5. Mixed(b) \in Blocks /\ DOMAIN Mixed(b) = 1 .. BlockSize
    BY <2>4, FullBlock
  <2>6. DOMAIN b \subseteq 1 .. BlockSize
    BY <2>1
  <2>7. ASSUME NEW i \in 1 .. BlockSize, i \notin DOMAIN b
        PROVE  /\ DOMAIN Mixed(b) # DOMAIN b
               /\ i \in DOMAIN mono /\ Mixed(b)[i] = mono[i]
    BY <2>2, <2>3, <2>5, <2>7
  <2>8. ASSUME NEW i \in DOMAIN b PROVE Mixed(b)[i] = b[i]
    BY <2>3, <2>6, <2>8
  <2> QED BY <2>5, <2>6, <2>7, <2>8
<1> QED BY <1>1, <1>2 DEF TypeOK

-----------------------------------------------------------------------------
LEMMA InvInit == Init => IInv
<1> SUFFICES ASSUME Init PROVE IInv
  OBVIOUS
<1>1. mono \in Blocks /\ DOMAIN mono = 1 .. BlockSize
  BY FullBlock DEF Init, Prepared
<1>2. TypeOK
  <2>0. host \in Blocks \cup {NoBlock} /\ tainted \in BOOLEAN
    BY Zenon DEF Init, Prepared
  <2>1. buf \in [Networks -> [DOMAIN mono -> Class]]
    BY <1>1 DEF Init, Prepared
  <2>2. /\ fast \in [Networks -> Class] /\ slow \in [Networks -> Class]
        /\ filter \in [Networks -> {"num", "nan"}]
        /\ heard \in [Networks -> SUBSET Class]
    BY DEF Init, Prepared, Class
  <2>3. /\ left \in [Networks -> 0 .. CollectBlocks] /\ warm \in 0 .. WarmBlocks
        /\ pos \in 0 .. BlockSize + 1
    BY DEF Init, Prepared
  <2>4. /\ channels \in Layouts /\ (channels = 2 => DOMAIN mono = 1 .. BlockSize)
        /\ written \in {0, 2} /\ dirty \in BOOLEAN /\ exposed \in BOOLEAN
    BY <1>1 DEF Init, Prepared
  <2> QED BY <1>1, <2>0, <2>1, <2>2, <2>3, <2>4, Zenon DEF TypeOK
<1>3. ~Settled
  BY DEF Init, Prepared, Settled
<1> QED BY <1>2, <1>3 DEF Init, Prepared, IInv, FiltersFinite, HeardFinite,
           SettledFinite, EnvelopesFinite, SplitSoFar, HostInMix, MixFinite

LEMMA PrepareKeeps ==
  ASSUME IInv, Prepare
  PROVE  IInv'
<1>1. mono' \in Blocks /\ DOMAIN mono' = 1 .. BlockSize
  BY FullBlock DEF Prepare
<1>2. TypeOK'
  <2>1. buf' \in [Networks -> [DOMAIN mono' -> Class]]
    BY <1>1 DEF Prepare
  <2>2. host' \in Blocks \cup {NoBlock} /\ tainted' \in BOOLEAN
    BY Zenon DEF Prepare
  <2>3. /\ channels' \in Layouts /\ pos' \in 0 .. BlockSize + 1
        /\ (channels' = 2 => DOMAIN mono' = 1 .. BlockSize)
        /\ left' \in [Networks -> 0 .. CollectBlocks] /\ warm' \in 0 .. WarmBlocks
        /\ filter' \in [Networks -> {"num", "nan"}] /\ written' \in {0, 2}
    BY <1>1 DEF Prepare
  <2> QED BY <1>1, <2>1, <2>2, <2>3 DEF Prepare, TypeOK, IInv
<1>3. ~Settled'
  BY DEF Prepare, Settled
<1> QED BY <1>2, <1>3 DEF Prepare, IInv, FiltersFinite, HeardFinite,
           SettledFinite, EnvelopesFinite, SplitSoFar, HostInMix, MixFinite

LEMMA ReloadKeeps ==
  ASSUME IInv, NEW n \in Networks, Reload(n)
  PROVE  IInv'
<1> USE DEF Reload, IInv
<1>1. TypeOK'
  BY DEF TypeOK
<1>2. ~Settled'
  BY DEF Settled, TypeOK
<1>3. HeardFinite'
  BY DEF HeardFinite, TypeOK
<1> QED BY <1>1, <1>2, <1>3 DEF FiltersFinite, SettledFinite, EnvelopesFinite,
           SplitSoFar, HostInMix, MixFinite, Finite, Ready

(***************************************************************************)
(* The mix is finite if the host's samples are and the stale rest was.     *)
(***************************************************************************)
LEMMA ReceiveKeeps ==
  ASSUME IInv, NEW b \in Blocks, Receive(b)
  PROVE  IInv'
<1> USE DEF Receive, IInv
<1>1. /\ mono' \in Blocks
      /\ channels = 2 => DOMAIN mono' = 1 .. BlockSize
      /\ DOMAIN host' \subseteq DOMAIN mono'
  BY MixedShape
<1>2. TypeOK'
  <2>1. buf' \in [Networks -> [DOMAIN mono' -> Class]]
    BY <1>1, BlockShape
  <2>2. host' \in Blocks /\ tainted' \in BOOLEAN /\ dirty' \in BOOLEAN /\ exposed' \in BOOLEAN
    BY DEF TypeOK
  <2> QED BY <1>1, <2>1, <2>2 DEF TypeOK
<1>3. ASSUME ~dirty', ~exposed' PROVE Finite(mono')
  <2>1. Finite(b)
    BY <1>3
  <2>2. DOMAIN Mixed(b) # DOMAIN b => Finite(mono)
    BY <1>3 DEF SettledFinite, Ready
  <2> QED BY <2>1, <2>2, MixedShape DEF Finite
<1>4. SplitSoFar'
  <2>1. PICK k \in 1 .. BlockSize : DOMAIN mono' = 1 .. k
    BY <1>1, BlockShape
  <2> QED BY <2>1 DEF SplitSoFar
<1>5. FiltersFinite' /\ HeardFinite' /\ SettledFinite' /\ HostInMix' /\ MixFinite'
  BY <1>1, <1>3 DEF FiltersFinite, HeardFinite, SettledFinite, HostInMix, MixFinite
<1>6. EnvelopesFinite'
  BY DEF EnvelopesFinite
<1> QED BY <1>2, <1>4, <1>5, <1>6

LEMMA SplitKeeps ==
  ASSUME IInv, SplitSample
  PROVE  IInv'
<1> USE DEF IInv
<1>1. PICK k \in 1 .. BlockSize : mono \in [1 .. k -> Class] /\ DOMAIN mono = 1 .. k
  BY BlockShape DEF TypeOK
<1>2. pos \in 1 .. k /\ pos' = pos + 1 /\ mono' = mono
  BY <1>1 DEF SplitSample
<1>3. PICK out \in [Networks -> Class] :
         /\ \A n \in Networks : out[n] \in SplitInto(fast'[n], slow'[n], buf[n][pos])
         /\ buf' = [n \in Networks |-> [buf[n] EXCEPT ![pos] = out[n]]]
  BY DEF SplitSample
<1>4. \A n \in Networks : buf[n] \in [1 .. k -> Class] /\ buf[n][pos] \in Class
  BY <1>1, <1>2 DEF TypeOK
<1>5. \A n \in Networks : /\ fast'[n] = Follow(fast[n], buf[n][pos])
                          /\ slow'[n] = FollowSlowly(slow[n], buf[n][pos])
                          /\ fast[n] \in Class /\ slow[n] \in Class
                          /\ fast'[n] \in Class /\ slow'[n] \in Class
  BY <1>4, EnvelopeClass DEF SplitSample, TypeOK
<1>6. TypeOK'
  <2>1. buf' \in [Networks -> [1 .. k -> Class]]
    BY <1>3, <1>4
  <2>2. fast' \in [Networks -> Class] /\ slow' \in [Networks -> Class]
    BY <1>5 DEF SplitSample
  <2>3. pos' \in 0 .. BlockSize + 1
    BY <1>2
  <2> QED BY <1>1, <1>2, <2>1, <2>2, <2>3 DEF TypeOK, SplitSample
<1>7. SplitSoFar'
  <2> SUFFICES ASSUME NEW n \in Networks, NEW i \in 1 .. k
               PROVE  IF i < pos + 1 THEN buf'[n][i] \in {"num", "nan"}
                                     ELSE buf'[n][i] = mono[i]
    BY <1>1, <1>2 DEF SplitSoFar
  <2>1. buf'[n][i] = IF i = pos THEN out[n] ELSE buf[n][i]
    BY <1>3, <1>4
  <2>2. out[n] \in {"num", "nan"}
    BY <1>3, <1>4, <1>5, SplitsFinite
  <2>3. i # pos => IF i < pos THEN buf[n][i] \in {"num", "nan"} ELSE buf[n][i] = mono[i]
    BY <1>1, <1>2 DEF SplitSoFar
  <2> QED BY <1>2, <2>1, <2>2, <2>3
<1>8. EnvelopesFinite'
  <2> SUFFICES ASSUME ~dirty, ~exposed, NEW n \in Networks
               PROVE  fast'[n] = "num" /\ slow'[n] = "num"
    BY DEF EnvelopesFinite, SplitSample
  <2>1. buf[n][pos] = "num"
    BY <1>1, <1>2 DEF SplitSoFar, MixFinite, Finite
  <2>2. fast[n] = "num" /\ slow[n] = "num"
    BY DEF EnvelopesFinite
  <2>3. fast'[n] = Follow("num", "num") /\ slow'[n] = FollowSlowly("num", "num")
    BY <1>5, <2>1, <2>2
  <2>4. "num" \in Class
    BY DEF Class
  <2> QED BY <2>3, <2>4, EnvelopeClass
<1>9. FiltersFinite' /\ HeardFinite'
  BY DEF FiltersFinite, HeardFinite, SplitSample
<1>10. MixFinite' /\ SettledFinite' /\ HostInMix'
  BY <1>2 DEF MixFinite, SettledFinite, HostInMix, Finite, SplitSample
<1> QED BY <1>6, <1>7, <1>8, <1>9, <1>10

(***************************************************************************)
(* The rest of processBlock.  No sample is infinite any more, so a block   *)
(* is left alone by the filters or keeps them finite; the rings turn NaN   *)
(* into a number; and a network that serves returns numbers.               *)
(***************************************************************************)
LEMMA FilteredFinite ==
  ASSUME NEW k \in Nat, NEW b \in [1 .. k -> {"num", "nan"}]
  PROVE  /\ FilterState("num", b) = "num"
         /\ Filtered("num", b) \in [1 .. k -> {"num", "nan"}]
BY DEF FilterState, Filtered, Skips, HasNaN, Finite

LEMMA FinishKeeps ==
  ASSUME IInv, Finish
  PROVE  IInv'
<1> USE DEF IInv
<1>1. PICK k \in 1 .. BlockSize : mono \in [1 .. k -> Class] /\ DOMAIN mono = 1 .. k
  BY BlockShape DEF TypeOK
<1>2. \A n \in Networks : buf[n] \in [1 .. k -> {"num", "nan"}]
  <2> SUFFICES ASSUME NEW n \in Networks PROVE buf[n] \in [1 .. k -> {"num", "nan"}]
    OBVIOUS
  <2>1. buf[n] \in [1 .. k -> Class]
    BY <1>1 DEF TypeOK
  <2>2. \A i \in 1 .. k : i < pos
    BY <1>1 DEF Finish, TypeOK
  <2>3. \A i \in 1 .. k : buf[n][i] \in {"num", "nan"}
    BY <1>1, <2>2 DEF SplitSoFar, Finish
  <2> QED BY <2>1, <2>3
<1>3. PICK enabled \in SUBSET Networks, on \in SUBSET Networks,
           inferred \in [Networks -> Class] :
        LET block(n) == IF n \in enabled THEN Filtered(filter[n], buf[n]) ELSE buf[n]
            out(n) == Output(left'[n], block(n), inferred[n])
            mix(i) == Sum({out(n)[i] : n \in on})
        IN  /\ filter' = [n \in Networks |->
                  IF n \in enabled THEN FilterState(filter[n], buf[n]) ELSE filter[n]]
            /\ heard' = [n \in Networks |->
                  heard[n] \cup {Sanitise(block(n)[i]) : i \in DOMAIN mono}]
            /\ left' = [n \in Networks |-> OneLess(left[n])]
            /\ warm' = OneLess(warm)
            /\ \A n \in Networks : inferred[n] \in Inferred(heard'[n])
            /\ mono' \in [DOMAIN mono -> Class]
            /\ \A i \in DOMAIN mono : mono'[i] \in Ramped(warm', mix(i))
  BY DEF Finish
<1> DEFINE block(n) == IF n \in enabled THEN Filtered(filter[n], buf[n]) ELSE buf[n]
           out(n) == Output(left'[n], block(n), inferred[n])
           mix(i) == Sum({out(n)[i] : n \in on})
<1>4. \A n \in Networks : /\ block(n) \in [1 .. k -> {"num", "nan"}]
                          /\ filter'[n] = "num"
  BY <1>2, <1>3, FilteredFinite DEF FiltersFinite
<1>5. FiltersFinite'
  BY <1>4 DEF FiltersFinite
<1>6. HeardFinite'
  <2> SUFFICES ASSUME NEW n \in Networks PROVE heard'[n] \subseteq {"num"}
    BY DEF HeardFinite
  <2>1. heard'[n] = heard[n] \cup {Sanitise(block(n)[i]) : i \in 1 .. k}
    BY <1>1, <1>3
  <2>2. \A i \in 1 .. k : Sanitise(block(n)[i]) = "num"
    BY <1>4 DEF Sanitise
  <2> QED BY <2>1, <2>2 DEF HeardFinite
<1>7. /\ mono' \in [1 .. k -> Class] /\ pos' = 0
      /\ buf' = [n \in Networks |-> mono']
  BY <1>1, <1>3 DEF Finish
<1>8. left' \in [Networks -> 0 .. CollectBlocks] /\ warm' \in 0 .. WarmBlocks
  BY <1>3 DEF TypeOK, OneLess
<1>9. TypeOK'
  <2>1. mono' \in Blocks /\ DOMAIN mono' = DOMAIN mono
    BY <1>1, <1>7 DEF Blocks
  <2>2. heard' \in [Networks -> SUBSET Class]
    BY <1>3, <1>6 DEF HeardFinite, Class
  <2>3. filter' \in [Networks -> {"num", "nan"}]
    BY <1>3, <1>4
  <2>4. buf' \in [Networks -> [DOMAIN mono' -> Class]]
    BY <1>7
  <2>5. written' \in {0, 2} /\ pos' \in 0 .. BlockSize + 1
    BY <1>7 DEF Finish, ChannelsWritten
  <2>6. host' \in Blocks \cup {NoBlock} /\ tainted' \in BOOLEAN
    <3>1. host' \in [DOMAIN host -> Class] /\ tainted' = tainted
      BY DEF Finish
    <3>2. CASE host \in Blocks
      <4>1. PICK l \in 1 .. BlockSize : DOMAIN host = 1 .. l
        BY <3>2, BlockShape
      <4> QED BY <3>1, <4>1 DEF Blocks, TypeOK
    <3>3. CASE host = NoBlock
      <4>1. DOMAIN host = {}
        BY <3>3 DEF NoBlock
      <4>2. host' = NoBlock
        BY <3>1, <4>1 DEF NoBlock
      <4> QED BY <3>1, <4>2 DEF TypeOK
    <3> QED BY <3>2, <3>3 DEF TypeOK
  <2> QED BY <1>8, <2>1, <2>2, <2>3, <2>4, <2>5, <2>6 DEF TypeOK, Finish
<1>10. ASSUME Settled', NEW i \in 1 .. k PROVE mono'[i] = "num"
  <2>1. \A n \in on : out(n)[i] = "num"
    <3> SUFFICES ASSUME NEW n \in on PROVE out(n)[i] = "num"
      OBVIOUS
    <3>1. ~(left'[n] > 0)
      BY <1>10 DEF Settled
    <3>2. inferred[n] = "num"
      BY <1>3, <1>6 DEF Inferred, HeardFinite
    <3>3. out(n) = [j \in DOMAIN block(n) |-> Sanitise(inferred[n])]
      BY <3>1 DEF Output
    <3>4. DOMAIN block(n) = 1 .. k
      BY <1>4
    <3> QED BY <3>2, <3>3, <3>4 DEF Sanitise
  <2> HIDE DEF out
  <2>2. {out(n)[i] : n \in on} \in SUBSET {"num"}
    BY <2>1
  <2>3. mix(i) = "num"
    BY <2>2, SumNumbers
  <2>4. mono'[i] \in Ramped(warm', mix(i))
    BY <1>1, <1>3 DEF out
  <2> QED BY <1>10, <2>3, <2>4 DEF Ramped, Settled
<1>11. ASSUME Settled', ~tainted', NEW i \in DOMAIN host PROVE host'[i] = "num"
  <2>1. i \in 1 .. k /\ host'[i] \in DryWet(mono'[i]) /\ ~tainted
    BY <1>1, <1>11 DEF Finish, HostInMix
  <2>2. mono'[i] = "num"
    BY <1>10, <1>11, <2>1
  <2>3. DryWet("num") = {Sum({"num", "num"})}
    BY <2>1 DEF DryWet, Delayed
  <2>4. Sum({"num", "num"}) = "num"
    BY SumNumbers
  <2> QED BY <2>1, <2>2, <2>3, <2>4
<1>12. SettledFinite'
  <2>1. DOMAIN host' = DOMAIN host
    BY DEF Finish
  <2> QED BY <1>7, <1>10, <1>11, <2>1 DEF SettledFinite, Finite
<1>13. EnvelopesFinite' /\ SplitSoFar' /\ HostInMix' /\ MixFinite'
  BY <1>7 DEF EnvelopesFinite, SplitSoFar, HostInMix, MixFinite, Finish
<1> QED BY <1>5, <1>6, <1>9, <1>12, <1>13

LEMMA InvNext == IInv /\ [Next]_vars => IInv'
<1> SUFFICES ASSUME IInv, [Next]_vars PROVE IInv'
  OBVIOUS
<1>1. CASE Next
  BY <1>1, PrepareKeeps, ReloadKeeps, ReceiveKeeps, SplitKeeps, FinishKeeps
     DEF Next, ProcessBlock, Restart
<1>2. CASE UNCHANGED vars
  BY <1>2 DEF vars, IInv, TypeOK, FiltersFinite, HeardFinite, SettledFinite, Settled,
     EnvelopesFinite, SplitSoFar, HostInMix, MixFinite, Finite
<1> QED BY <1>1, <1>2

THEOREM Invariant == Spec => []IInv
BY InvInit, InvNext, PTL DEF Spec

-----------------------------------------------------------------------------
(***************************************************************************)
(* The variables keep their types.                                         *)
(***************************************************************************)
THEOREM TypeCorrect == Spec => []TypeOK
BY Invariant, PTL DEF IInv

(***************************************************************************)
(* Neither the host nor silence can leave a filter broken, and a network   *)
(* only ever hears numbers (IIRCutoffFilter.cpp, processFilters;           *)
(* RingBuffer.cpp, pushSample).                                            *)
(***************************************************************************)
THEOREM InsideStaysFinite == Spec => []InsideFinite
BY Invariant, PTL DEF IInv, InsideFinite

(***************************************************************************)
(* A settled path puts out numbers: the wet signal always, what the host   *)
(* gets back if it has sent numbers (PluginProcessor.cpp, processBlock).   *)
(***************************************************************************)
THEOREM SettledOutputFinite == Spec => []SettledFinite
BY Invariant, PTL DEF IInv

(***************************************************************************)
(* The plugin does not poison its own envelopes (Envelope.cpp,             *)
(* processBlock).                                                          *)
(***************************************************************************)
THEOREM NotPoisoned == Spec => []EnvelopesFinite
BY Invariant, PTL DEF IInv
=============================================================================
