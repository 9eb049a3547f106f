------------------------ MODULE MCSipPolicies_proofs ------------------------
(***************************************************************************)
(* The properties of MCSipPolicies for any sets of MNs, CNs and prefixes.  *)
(* A behaviour of MCSpec that starts with a policy is a behaviour of       *)
(* SipBinding under that policy, so the theorems of SipBinding_proofs hold *)
(* of it.  An instance with a parameter has no theorems to cite: each      *)
(* policy gets an instance of its own, with the same substitutions.        *)
(***************************************************************************)
EXTENDS MCSipPolicies, TLAPS

Fixed == INSTANCE SipBinding_proofs WITH
    Select <- 0, MNs <- ServedMNs(0), NumUplinks <- IF 0 = 0 THEN 2 ELSE 3,
    Prefixes <- UsedPrefixes(0), Readdress <- FALSE, MaxLate <- 1,
    RoundMod <- 6, HomeUplink <- [m \in ServedMNs(0) |-> 1]

Random == INSTANCE SipBinding_proofs WITH
    Select <- 1, MNs <- ServedMNs(1), NumUplinks <- IF 1 = 0 THEN 2 ELSE 3,
    Prefixes <- UsedPrefixes(1), Readdress <- FALSE, MaxLate <- 1,
    RoundMod <- 6, HomeUplink <- [m \in ServedMNs(1) |-> 1]

Round == INSTANCE SipBinding_proofs WITH
    Select <- 2, MNs <- ServedMNs(2), NumUplinks <- IF 2 = 0 THEN 2 ELSE 3,
    Prefixes <- UsedPrefixes(2), Readdress <- FALSE, MaxLate <- 1,
    RoundMod <- 6, HomeUplink <- [m \in ServedMNs(2) |-> 1]

Weight2 == INSTANCE SipBinding_proofs WITH
    Select <- 4, MNs <- ServedMNs(4), NumUplinks <- IF 4 = 0 THEN 2 ELSE 3,
    Prefixes <- UsedPrefixes(4), Readdress <- FALSE, MaxLate <- 1,
    RoundMod <- 6, HomeUplink <- [m \in ServedMNs(4) |-> 1]

-----------------------------------------------------------------------------
(* The instances are those of the runs, and their assumptions hold.        *)

\* S(0) and Fixed are the same instance of SipBinding.
LEMMA SameFixed ==
    /\ S(0)!Init <=> Fixed!Init
    /\ S(0)!Next <=> Fixed!Next
    /\ S(0)!BoundToLive <=> Fixed!BoundToLive
    /\ S(0)!OneEntry <=> Fixed!OneEntry
    /\ S(0)!LosesOnlyLast <=> Fixed!LosesOnlyLast
  BY DEF
    S!Cardinality, S!Uplinks, S!Url, S!late_register, S!recv_temp_move,
    S!Addrs, S!Contacts, S!vars, S!counters, S!Packet, S!Registered, S!Live,
    S!Nth, S!Owners, S!First, S!Other, S!Pos, S!Rank, S!WithEntry, S!Pick,
    S!PickCounters, S!RehomeContacts, S!RehomeCounters, S!RenewStep,
    S!RenewMoved, S!Renewed, S!Stop, S!recv_register, S!Forward,
    S!recv_from_mn, S!recv_from_cn, S!recv_200ok_from_cn, S!recv_200ok_from_mn,
    S!recv_rehoming, S!recv_refer, S!recv_reinvite, S!recv_mn_bu,
    S!send_reg_msg, S!rehome_all, S!rehome_first, S!re_homing, S!Init,
    S!NewAddress, S!RecvPacket, S!Next, S!BoundToLive, S!LosesOnlyLast,
    S!EvenSpread, S!RenewShare, S!OneEntry,
    Fixed!Cardinality, Fixed!Uplinks, Fixed!Url, Fixed!late_register,
    Fixed!recv_temp_move, Fixed!Addrs, Fixed!Contacts, Fixed!vars,
    Fixed!counters, Fixed!Packet, Fixed!Registered, Fixed!Live, Fixed!Nth,
    Fixed!Owners, Fixed!First, Fixed!Other, Fixed!Pos, Fixed!Rank,
    Fixed!WithEntry, Fixed!Pick, Fixed!PickCounters, Fixed!RehomeContacts,
    Fixed!RehomeCounters, Fixed!RenewStep, Fixed!RenewMoved, Fixed!Renewed,
    Fixed!Stop, Fixed!recv_register, Fixed!Forward, Fixed!recv_from_mn,
    Fixed!recv_from_cn, Fixed!recv_200ok_from_cn, Fixed!recv_200ok_from_mn,
    Fixed!recv_rehoming, Fixed!recv_refer, Fixed!recv_reinvite,
    Fixed!recv_mn_bu, Fixed!send_reg_msg, Fixed!rehome_all, Fixed!rehome_first,
    Fixed!re_homing, Fixed!Init, Fixed!NewAddress, Fixed!RecvPacket,
    Fixed!Next, Fixed!BoundToLive, Fixed!LosesOnlyLast, Fixed!EvenSpread,
    Fixed!RenewShare, Fixed!OneEntry

\* S(1) and Random are the same instance of SipBinding.
LEMMA SameRandom ==
    /\ S(1)!Init <=> Random!Init
    /\ S(1)!Next <=> Random!Next
    /\ S(1)!BoundToLive <=> Random!BoundToLive
    /\ S(1)!OneEntry <=> Random!OneEntry
    /\ S(1)!LosesOnlyLast <=> Random!LosesOnlyLast
  BY DEF
    S!Cardinality, S!Uplinks, S!Url, S!late_register, S!recv_temp_move,
    S!Addrs, S!Contacts, S!vars, S!counters, S!Packet, S!Registered, S!Live,
    S!Nth, S!Owners, S!First, S!Other, S!Pos, S!Rank, S!WithEntry, S!Pick,
    S!PickCounters, S!RehomeContacts, S!RehomeCounters, S!RenewStep,
    S!RenewMoved, S!Renewed, S!Stop, S!recv_register, S!Forward,
    S!recv_from_mn, S!recv_from_cn, S!recv_200ok_from_cn, S!recv_200ok_from_mn,
    S!recv_rehoming, S!recv_refer, S!recv_reinvite, S!recv_mn_bu,
    S!send_reg_msg, S!rehome_all, S!rehome_first, S!re_homing, S!Init,
    S!NewAddress, S!RecvPacket, S!Next, S!BoundToLive, S!LosesOnlyLast,
    S!EvenSpread, S!RenewShare, S!OneEntry,
    Random!Cardinality, Random!Uplinks, Random!Url, Random!late_register,
    Random!recv_temp_move, Random!Addrs, Random!Contacts, Random!vars,
    Random!counters, Random!Packet, Random!Registered, Random!Live, Random!Nth,
    Random!Owners, Random!First, Random!Other, Random!Pos, Random!Rank,
    Random!WithEntry, Random!Pick, Random!PickCounters, Random!RehomeContacts,
    Random!RehomeCounters, Random!RenewStep, Random!RenewMoved, Random!Renewed,
    Random!Stop, Random!recv_register, Random!Forward, Random!recv_from_mn,
    Random!recv_from_cn, Random!recv_200ok_from_cn, Random!recv_200ok_from_mn,
    Random!recv_rehoming, Random!recv_refer, Random!recv_reinvite,
    Random!recv_mn_bu, Random!send_reg_msg, Random!rehome_all,
    Random!rehome_first, Random!re_homing, Random!Init, Random!NewAddress,
    Random!RecvPacket, Random!Next, Random!BoundToLive, Random!LosesOnlyLast,
    Random!EvenSpread, Random!RenewShare, Random!OneEntry

\* S(2) and Round are the same instance of SipBinding.
LEMMA SameRound ==
    /\ S(2)!Init <=> Round!Init
    /\ S(2)!Next <=> Round!Next
    /\ S(2)!BoundToLive <=> Round!BoundToLive
    /\ S(2)!OneEntry <=> Round!OneEntry
    /\ S(2)!LosesOnlyLast <=> Round!LosesOnlyLast
    /\ S(2)!EvenSpread <=> Round!EvenSpread
    /\ S(2)!RenewShare <=> Round!RenewShare
  BY DEF
    S!Cardinality, S!Uplinks, S!Url, S!late_register, S!recv_temp_move,
    S!Addrs, S!Contacts, S!vars, S!counters, S!Packet, S!Registered, S!Live,
    S!Nth, S!Owners, S!First, S!Other, S!Pos, S!Rank, S!WithEntry, S!Pick,
    S!PickCounters, S!RehomeContacts, S!RehomeCounters, S!RenewStep,
    S!RenewMoved, S!Renewed, S!Stop, S!recv_register, S!Forward,
    S!recv_from_mn, S!recv_from_cn, S!recv_200ok_from_cn, S!recv_200ok_from_mn,
    S!recv_rehoming, S!recv_refer, S!recv_reinvite, S!recv_mn_bu,
    S!send_reg_msg, S!rehome_all, S!rehome_first, S!re_homing, S!Init,
    S!NewAddress, S!RecvPacket, S!Next, S!BoundToLive, S!LosesOnlyLast,
    S!EvenSpread, S!RenewShare, S!OneEntry,
    Round!Cardinality, Round!Uplinks, Round!Url, Round!late_register,
    Round!recv_temp_move, Round!Addrs, Round!Contacts, Round!vars,
    Round!counters, Round!Packet, Round!Registered, Round!Live, Round!Nth,
    Round!Owners, Round!First, Round!Other, Round!Pos, Round!Rank,
    Round!WithEntry, Round!Pick, Round!PickCounters, Round!RehomeContacts,
    Round!RehomeCounters, Round!RenewStep, Round!RenewMoved, Round!Renewed,
    Round!Stop, Round!recv_register, Round!Forward, Round!recv_from_mn,
    Round!recv_from_cn, Round!recv_200ok_from_cn, Round!recv_200ok_from_mn,
    Round!recv_rehoming, Round!recv_refer, Round!recv_reinvite,
    Round!recv_mn_bu, Round!send_reg_msg, Round!rehome_all, Round!rehome_first,
    Round!re_homing, Round!Init, Round!NewAddress, Round!RecvPacket,
    Round!Next, Round!BoundToLive, Round!LosesOnlyLast, Round!EvenSpread,
    Round!RenewShare, Round!OneEntry

\* S(4) and Weight2 are the same instance of SipBinding.
LEMMA SameWeight2 ==
    /\ S(4)!Init <=> Weight2!Init
    /\ S(4)!Next <=> Weight2!Next
    /\ S(4)!BoundToLive <=> Weight2!BoundToLive
    /\ S(4)!OneEntry <=> Weight2!OneEntry
    /\ S(4)!LosesOnlyLast <=> Weight2!LosesOnlyLast
  BY DEF
    S!Cardinality, S!Uplinks, S!Url, S!late_register, S!recv_temp_move,
    S!Addrs, S!Contacts, S!vars, S!counters, S!Packet, S!Registered, S!Live,
    S!Nth, S!Owners, S!First, S!Other, S!Pos, S!Rank, S!WithEntry, S!Pick,
    S!PickCounters, S!RehomeContacts, S!RehomeCounters, S!RenewStep,
    S!RenewMoved, S!Renewed, S!Stop, S!recv_register, S!Forward,
    S!recv_from_mn, S!recv_from_cn, S!recv_200ok_from_cn, S!recv_200ok_from_mn,
    S!recv_rehoming, S!recv_refer, S!recv_reinvite, S!recv_mn_bu,
    S!send_reg_msg, S!rehome_all, S!rehome_first, S!re_homing, S!Init,
    S!NewAddress, S!RecvPacket, S!Next, S!BoundToLive, S!LosesOnlyLast,
    S!EvenSpread, S!RenewShare, S!OneEntry,
    Weight2!Cardinality, Weight2!Uplinks, Weight2!Url, Weight2!late_register,
    Weight2!recv_temp_move, Weight2!Addrs, Weight2!Contacts, Weight2!vars,
    Weight2!counters, Weight2!Packet, Weight2!Registered, Weight2!Live,
    Weight2!Nth, Weight2!Owners, Weight2!First, Weight2!Other, Weight2!Pos,
    Weight2!Rank, Weight2!WithEntry, Weight2!Pick, Weight2!PickCounters,
    Weight2!RehomeContacts, Weight2!RehomeCounters, Weight2!RenewStep,
    Weight2!RenewMoved, Weight2!Renewed, Weight2!Stop, Weight2!recv_register,
    Weight2!Forward, Weight2!recv_from_mn, Weight2!recv_from_cn,
    Weight2!recv_200ok_from_cn, Weight2!recv_200ok_from_mn,
    Weight2!recv_rehoming, Weight2!recv_refer, Weight2!recv_reinvite,
    Weight2!recv_mn_bu, Weight2!send_reg_msg, Weight2!rehome_all,
    Weight2!rehome_first, Weight2!re_homing, Weight2!Init, Weight2!NewAddress,
    Weight2!RecvPacket, Weight2!Next, Weight2!BoundToLive,
    Weight2!LosesOnlyLast, Weight2!EvenSpread, Weight2!RenewShare,
    Weight2!OneEntry

\* The assumptions of SipBinding under select_ 0.
LEMMA FixedConstants ==
    /\ (IF 0 = 0 THEN 2 ELSE 3) \in Nat \ {0}
    /\ None \notin Fixed!Addrs \cup Fixed!Uplinks \cup ServedMNs(0)
    /\ 0 \in 0..4
    /\ [m \in ServedMNs(0) |-> 1] \in [ServedMNs(0) -> Fixed!Uplinks]
    /\ FALSE \in BOOLEAN
    /\ 1 \in Nat \ {0}
    /\ 6 \in Nat \ {0} /\ \A n \in Fixed!Uplinks : 6 % n = 0
<1>1. Fixed!Uplinks = 1..2
  BY DEF Fixed!Uplinks
<1>2. UsedPrefixes(0) \subseteq Prefixes
  BY PoliciesAssumption DEF UsedPrefixes
<1>3. None \notin Fixed!Addrs \cup Fixed!Uplinks \cup ServedMNs(0)
  BY <1>1, <1>2, PoliciesAssumption DEF Fixed!Addrs, ServedMNs
<1>4. \A n \in 1..2 : 6 % n = 0
  <2>1. 6 % 1 = 0 /\ 6 % 2 = 0
    OBVIOUS
  <2>2. 1..2 = {1, 2}
    OBVIOUS
  <2> QED BY <2>1, <2>2
<1> QED BY <1>1, <1>3, <1>4

\* The assumptions of SipBinding under select_ 1.
LEMMA RandomConstants ==
    /\ (IF 1 = 0 THEN 2 ELSE 3) \in Nat \ {0}
    /\ None \notin Random!Addrs \cup Random!Uplinks \cup ServedMNs(1)
    /\ 1 \in 0..4
    /\ [m \in ServedMNs(1) |-> 1] \in [ServedMNs(1) -> Random!Uplinks]
    /\ FALSE \in BOOLEAN
    /\ 1 \in Nat \ {0}
    /\ 6 \in Nat \ {0} /\ \A n \in Random!Uplinks : 6 % n = 0
<1>1. Random!Uplinks = 1..3
  BY DEF Random!Uplinks
<1>2. UsedPrefixes(1) \subseteq Prefixes
  BY PoliciesAssumption DEF UsedPrefixes
<1>3. None \notin Random!Addrs \cup Random!Uplinks \cup ServedMNs(1)
  BY <1>1, <1>2, PoliciesAssumption DEF Random!Addrs, ServedMNs
<1>4. \A n \in 1..3 : 6 % n = 0
  <2>1. 6 % 1 = 0 /\ 6 % 2 = 0 /\ 6 % 3 = 0
    OBVIOUS
  <2>2. 1..3 = {1, 2, 3}
    OBVIOUS
  <2> QED BY <2>1, <2>2
<1> QED BY <1>1, <1>3, <1>4

\* The assumptions of SipBinding under select_ 2.
LEMMA RoundConstants ==
    /\ (IF 2 = 0 THEN 2 ELSE 3) \in Nat \ {0}
    /\ None \notin Round!Addrs \cup Round!Uplinks \cup ServedMNs(2)
    /\ 2 \in 0..4
    /\ [m \in ServedMNs(2) |-> 1] \in [ServedMNs(2) -> Round!Uplinks]
    /\ FALSE \in BOOLEAN
    /\ 1 \in Nat \ {0}
    /\ 6 \in Nat \ {0} /\ \A n \in Round!Uplinks : 6 % n = 0
<1>1. Round!Uplinks = 1..3
  BY DEF Round!Uplinks
<1>2. UsedPrefixes(2) \subseteq Prefixes
  BY PoliciesAssumption DEF UsedPrefixes
<1>3. None \notin Round!Addrs \cup Round!Uplinks \cup ServedMNs(2)
  BY <1>1, <1>2, PoliciesAssumption DEF Round!Addrs, ServedMNs
<1>4. \A n \in 1..3 : 6 % n = 0
  <2>1. 6 % 1 = 0 /\ 6 % 2 = 0 /\ 6 % 3 = 0
    OBVIOUS
  <2>2. 1..3 = {1, 2, 3}
    OBVIOUS
  <2> QED BY <2>1, <2>2
<1> QED BY <1>1, <1>3, <1>4

\* The assumptions of SipBinding under select_ 4.
LEMMA Weight2Constants ==
    /\ (IF 4 = 0 THEN 2 ELSE 3) \in Nat \ {0}
    /\ None \notin Weight2!Addrs \cup Weight2!Uplinks \cup ServedMNs(4)
    /\ 4 \in 0..4
    /\ [m \in ServedMNs(4) |-> 1] \in [ServedMNs(4) -> Weight2!Uplinks]
    /\ FALSE \in BOOLEAN
    /\ 1 \in Nat \ {0}
    /\ 6 \in Nat \ {0} /\ \A n \in Weight2!Uplinks : 6 % n = 0
<1>1. Weight2!Uplinks = 1..3
  BY DEF Weight2!Uplinks
<1>2. UsedPrefixes(4) \subseteq Prefixes
  BY PoliciesAssumption DEF UsedPrefixes
<1>3. None \notin Weight2!Addrs \cup Weight2!Uplinks \cup ServedMNs(4)
  BY <1>1, <1>2, PoliciesAssumption DEF Weight2!Addrs, ServedMNs
<1>4. \A n \in 1..3 : 6 % n = 0
  <2>1. 6 % 1 = 0 /\ 6 % 2 = 0 /\ 6 % 3 = 0
    OBVIOUS
  <2>2. 1..3 = {1, 2, 3}
    OBVIOUS
  <2> QED BY <2>1, <2>2
<1> QED BY <1>1, <1>3, <1>4

-----------------------------------------------------------------------------
(* A behaviour keeps its policy and is one of SipBinding under it.         *)

\* With select_ 0 the behaviour is one of Fixed; with another it stays another.
LEMMA RunsAsFixed ==
    MCSpec => ([](select = 0) /\ Fixed!Spec) \/ []~(select = 0)
<1>1. MCInit /\ select = 0 => Fixed!Init
  BY SameFixed DEF MCInit
<1>2. select = 0 /\ [MCNext]_allvars => (select = 0)' /\ [Fixed!Next]_(Fixed!vars)
  BY SameFixed DEF MCNext, allvars, Fixed!vars
<1>3. ~(select = 0) /\ [MCNext]_allvars => ~(select = 0)'
  BY DEF MCNext, allvars
<1> QED BY <1>1, <1>2, <1>3, PTL DEF MCSpec, Fixed!Spec

\* With select_ 1 the behaviour is one of Random; with another it stays another.
LEMMA RunsAsRandom ==
    MCSpec => ([](select = 1) /\ Random!Spec) \/ []~(select = 1)
<1>1. MCInit /\ select = 1 => Random!Init
  BY SameRandom DEF MCInit
<1>2. select = 1 /\ [MCNext]_allvars => (select = 1)' /\ [Random!Next]_(Random!vars)
  BY SameRandom DEF MCNext, allvars, Random!vars
<1>3. ~(select = 1) /\ [MCNext]_allvars => ~(select = 1)'
  BY DEF MCNext, allvars
<1> QED BY <1>1, <1>2, <1>3, PTL DEF MCSpec, Random!Spec

\* With select_ 2 the behaviour is one of Round; with another it stays another.
LEMMA RunsAsRound ==
    MCSpec => ([](select = 2) /\ Round!Spec) \/ []~(select = 2)
<1>1. MCInit /\ select = 2 => Round!Init
  BY SameRound DEF MCInit
<1>2. select = 2 /\ [MCNext]_allvars => (select = 2)' /\ [Round!Next]_(Round!vars)
  BY SameRound DEF MCNext, allvars, Round!vars
<1>3. ~(select = 2) /\ [MCNext]_allvars => ~(select = 2)'
  BY DEF MCNext, allvars
<1> QED BY <1>1, <1>2, <1>3, PTL DEF MCSpec, Round!Spec

\* With select_ 4 the behaviour is one of Weight2; with another it stays another.
LEMMA RunsAsWeight2 ==
    MCSpec => ([](select = 4) /\ Weight2!Spec) \/ []~(select = 4)
<1>1. MCInit /\ select = 4 => Weight2!Init
  BY SameWeight2 DEF MCInit
<1>2. select = 4 /\ [MCNext]_allvars => (select = 4)' /\ [Weight2!Next]_(Weight2!vars)
  BY SameWeight2 DEF MCNext, allvars, Weight2!vars
<1>3. ~(select = 4) /\ [MCNext]_allvars => ~(select = 4)'
  BY DEF MCNext, allvars
<1> QED BY <1>1, <1>2, <1>3, PTL DEF MCSpec, Weight2!Spec

-----------------------------------------------------------------------------
(* The theorems.                                                           *)

\* Under by prefix with its single MN, random and round robin no MN keeps an
\* address its uplink has lost, however many MNs, CNs and prefixes there are.
THEOREM PoliciesBindToLive == MCSpec => []PolicyBoundToLive
<1>1. MCSpec => [](select = 0 => Fixed!BoundToLive)
  <2>1. Fixed!SoundPolicy
    BY DEF Fixed!SoundPolicy, Fixed!SingleMN, ServedMNs
  <2>2. Fixed!Spec => []Fixed!BoundToLive
    BY <2>1, FixedConstants, Fixed!BindingsAreLive
  <2> QED BY <2>2, RunsAsFixed, PTL
<1>2. MCSpec => [](select = 1 => Random!BoundToLive)
  <2>1. Random!SoundPolicy
    BY DEF Random!SoundPolicy
  <2>2. Random!Spec => []Random!BoundToLive
    BY <2>1, RandomConstants, Random!BindingsAreLive
  <2> QED BY <2>2, RunsAsRandom, PTL
<1>3. MCSpec => [](select = 2 => Round!BoundToLive)
  <2>1. Round!SoundPolicy
    BY DEF Round!SoundPolicy
  <2>2. Round!Spec => []Round!BoundToLive
    BY <2>1, RoundConstants, Round!BindingsAreLive
  <2> QED BY <2>2, RunsAsRound, PTL
<1>4. /\ select = 0 => Fixed!BoundToLive
      /\ select = 1 => Random!BoundToLive
      /\ select = 2 => Round!BoundToLive
      => PolicyBoundToLive
  BY SameFixed, SameRandom, SameRound DEF PolicyBoundToLive
<1> QED BY <1>1, <1>2, <1>3, <1>4, PTL

\* Under every policy REGISTER and method 13 never give an MN a second entry.
THEOREM PoliciesOneEntry == MCSpec => []PolicyOneEntry
<1>1. MCSpec => [](select = 0 => Fixed!OneEntry)
  <2>1. Fixed!Spec => []Fixed!OneEntry
    BY FixedConstants, Fixed!EntriesAreUnique
  <2> QED BY <2>1, RunsAsFixed, PTL
<1>2. MCSpec => [](select = 1 => Random!OneEntry)
  <2>1. Random!Spec => []Random!OneEntry
    BY RandomConstants, Random!EntriesAreUnique
  <2> QED BY <2>1, RunsAsRandom, PTL
<1>3. MCSpec => [](select = 2 => Round!OneEntry)
  <2>1. Round!Spec => []Round!OneEntry
    BY RoundConstants, Round!EntriesAreUnique
  <2> QED BY <2>1, RunsAsRound, PTL
<1>4. MCSpec => [](select = 4 => Weight2!OneEntry)
  <2>1. Weight2!Spec => []Weight2!OneEntry
    BY Weight2Constants, Weight2!EntriesAreUnique
  <2> QED BY <2>1, RunsAsWeight2, PTL
<1>5. /\ select = 0 => Fixed!OneEntry
      /\ select = 1 => Random!OneEntry
      /\ select = 2 => Round!OneEntry
      /\ select = 4 => Weight2!OneEntry
      => PolicyOneEntry
  BY SameFixed, SameRandom, SameRound, SameWeight2 DEF PolicyOneEntry, Policies
<1> QED BY <1>1, <1>2, <1>3, <1>4, <1>5, PTL

\* Under random and round robin a bound MN loses its contact only with the last
\* uplink.
THEOREM PoliciesLoseOnlyLast == MCSpec => PolicyLosesOnlyLast
<1>1. MCSpec => [][select = 1 => Random!LosesOnlyLast]_allvars
  <2>1. Random!Spec => [][Random!LosesOnlyLast]_(Random!vars)
    BY RandomConstants, Random!ContactsLostLast
  <2>2. [MCNext]_allvars /\ [Random!LosesOnlyLast]_(Random!vars)
        => [select = 1 => Random!LosesOnlyLast]_allvars
    BY DEF MCNext, allvars, Random!vars
  <2>3. ~(select = 1) => [select = 1 => Random!LosesOnlyLast]_allvars
    OBVIOUS
  <2> QED BY <2>1, <2>2, <2>3, RunsAsRandom, PTL DEF MCSpec
<1>2. MCSpec => [][select = 2 => Round!LosesOnlyLast]_allvars
  <2>1. Round!Spec => [][Round!LosesOnlyLast]_(Round!vars)
    BY RoundConstants, Round!ContactsLostLast
  <2>2. [MCNext]_allvars /\ [Round!LosesOnlyLast]_(Round!vars)
        => [select = 2 => Round!LosesOnlyLast]_allvars
    BY DEF MCNext, allvars, Round!vars
  <2>3. ~(select = 2) => [select = 2 => Round!LosesOnlyLast]_allvars
    OBVIOUS
  <2> QED BY <2>1, <2>2, <2>3, RunsAsRound, PTL DEF MCSpec
<1>3. /\ [select = 1 => Random!LosesOnlyLast]_allvars
      /\ [select = 2 => Round!LosesOnlyLast]_allvars
      => [\A p \in {1, 2} : select = p => S(p)!LosesOnlyLast]_allvars
  BY SameRandom, SameRound
<1> QED BY <1>1, <1>2, <1>3, PTL DEF PolicyLosesOnlyLast

\* In round robin re_homing spreads the MNs of the lost uplink evenly, for any
\* number of MNs.
THEOREM RoundSpreads == MCSpec => RoundEvenSpread
<1>1. MCSpec => [][select = 2 => Round!EvenSpread]_allvars
  <2>1. Round!Spec => [][Round!EvenSpread]_(Round!vars)
    BY RoundConstants, Round!RoundSpreadsEvenly
  <2>2. [MCNext]_allvars /\ [Round!EvenSpread]_(Round!vars)
        => [select = 2 => Round!EvenSpread]_allvars
    BY DEF MCNext, allvars, Round!vars
  <2>3. ~(select = 2) => [select = 2 => Round!EvenSpread]_allvars
    OBVIOUS
  <2> QED BY <2>1, <2>2, <2>3, RunsAsRound, PTL DEF MCSpec
<1>2. /\ [select = 2 => Round!EvenSpread]_allvars
      => [select = 2 => S(2)!EvenSpread]_allvars
  BY SameRound
<1> QED BY <1>1, <1>2, PTL DEF RoundEvenSpread

\* In round robin an uplink that gets an address takes over so many MNs that no
\* other contact has more, for any number of MNs.
THEOREM RoundRenews == MCSpec => RoundRenewShare
<1>1. MCSpec => [][select = 2 => Round!RenewShare]_allvars
  <2>1. Round!Spec => [][Round!RenewShare]_(Round!vars)
    BY RoundConstants, Round!RoundRenewsShare
  <2>2. [MCNext]_allvars /\ [Round!RenewShare]_(Round!vars)
        => [select = 2 => Round!RenewShare]_allvars
    BY DEF MCNext, allvars, Round!vars
  <2>3. ~(select = 2) => [select = 2 => Round!RenewShare]_allvars
    OBVIOUS
  <2> QED BY <2>1, <2>2, <2>3, RunsAsRound, PTL DEF MCSpec
<1>2. /\ [select = 2 => Round!RenewShare]_allvars
      => [select = 2 => S(2)!RenewShare]_allvars
  BY SameRound
<1> QED BY <1>1, <1>2, PTL DEF RoundRenewShare
=============================================================================
