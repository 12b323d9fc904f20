--------------------------- MODULE BootManagerProofs ---------------------------
(* What BootManager guarantees whatever devices, options, offers and capsules *)
(* there are.                                                               *)
EXTENDS BootManager, FiniteSetTheorems, SequenceTheorems, TLAPS

-----------------------------------------------------------------------------
(* Numbers of options.                                                     *)

\* A set of natural numbers has a least one: the intervals below its members
\* are finite sets, and one of them contains no other.
LEMMA LeastNatural ==
  ASSUME NEW S \in SUBSET Nat, S # {}
  PROVE  \E n \in S : \A k \in S : n <= k
<1> DEFINE T == {0..n : n \in S}
<1>1. T \subseteq FiniteSubsetsOf(Nat)
  <2>1. \A n \in S : n \in Int /\ 0 \in Int
    OBVIOUS
  <2>2. \A n \in S : IsFiniteSet(0..n)
    BY <2>1, FS_Interval
  <2>. QED
    BY <2>2 DEF FiniteSubsetsOf
<1>2. T # {}
  OBVIOUS
<1>3. PICK t \in T : \A u \in T : ~(<<u, t>> \in StrictSubsetOrdering(Nat))
  BY <1>1, <1>2, FS_StrictSubsetOrderingWellFounded, WFMin
<1>4. PICK n \in S : t = 0..n
  OBVIOUS
<1>5. ASSUME NEW k \in S, k < n
      PROVE  FALSE
  <2>1. 0..k \in T /\ n \in 0..n /\ n \notin 0..k /\ 0..k \subseteq 0..n
        /\ 0..n \subseteq Nat
    BY <1>4, <1>5
  <2>2. <<0..k, t>> \in StrictSubsetOrdering(Nat)
    BY <1>4, <2>1 DEF StrictSubsetOrdering
  <2>. QED
    BY <1>3, <2>1, <2>2
<1>. QED
  BY <1>4, <1>5

(* The least number of a set that has one belongs to it.                   *)
LEMMA LeastIsMember ==
  ASSUME NEW S \in SUBSET Nat, S # {}
  PROVE  Least(S) \in S
  BY LeastNatural DEF Least

NumbersAreFine == IsFiniteSet(DOMAIN options) /\ DOMAIN options \subseteq Nat

\* n options leave one of the numbers 0 to n free.
LEMMA FreeNumberIsFree ==
  ASSUME NumbersAreFine
  PROVE  FreeOptionNumber \in Nat \ DOMAIN options
<1> DEFINE n == Cardinality(DOMAIN options)
           free == 0..n \ DOMAIN options
<1>1. n \in Nat
  BY FS_CardinalityType DEF NumbersAreFine
<1>2. Cardinality(0..n) = n + 1
  BY <1>1, FS_Interval
<1>3. free # {}
  <2> SUFFICES ASSUME 0..n \in SUBSET DOMAIN options PROVE FALSE
    OBVIOUS
  <2>1. Cardinality(0..n) <= n
    BY FS_Subset DEF NumbersAreFine
  <2>. QED
    BY <1>1, <1>2, <2>1
<1>4. free \in SUBSET Nat
  BY <1>1
<1>5. FreeOptionNumber = Least(free)
  BY DEF FreeOptionNumber
<1>. HIDE DEF free
<1>6. Least(free) \in free
  BY <1>3, <1>4, LeastIsMember
<1>. QED
  BY <1>4, <1>5, <1>6 DEF free

\* Adding an option leaves the others with the numbers they have.
LEMMA AddedNumber ==
  ASSUME NumbersAreFine, NEW option, NEW number \in Nat,
         AddNumberedOption(option, number)
  PROVE  /\ NumbersAreFine'
         /\ DOMAIN options' = DOMAIN options \cup {number}
         /\ options'[number] = option
         /\ \A n \in DOMAIN options : options'[n] = options[n]
<1>1. /\ DOMAIN options' = DOMAIN options \cup {number}
      /\ options'[number] = option
      /\ \A n \in DOMAIN options : options'[n] = options[n]
  BY DEF AddNumberedOption, With
<1>2. IsFiniteSet(DOMAIN options \cup {number})
  BY FS_AddElement DEF NumbersAreFine
<1>. QED
  BY <1>1, <1>2 DEF NumbersAreFine

LEMMA AddedOption ==
  ASSUME NumbersAreFine, NEW option, AddLoadOption(option)
  PROVE  /\ NumbersAreFine'
         /\ DOMAIN options' = DOMAIN options \cup {FreeOptionNumber}
         /\ options'[FreeOptionNumber] = option
         /\ \A n \in DOMAIN options : options'[n] = options[n]
  BY FreeNumberIsFree, AddedNumber DEF AddLoadOption

-----------------------------------------------------------------------------
(* Hotkeys.                                                                *)

\* The option of a number is one that a key may start; early tells that Simple
\* Init was registered before.
Starts(early, key, number, option) ==
  IF key = "UP" THEN IF early THEN number = 0 ELSE option = "SimpleInit"
  ELSE \E offer \in Offered : offer.key = key /\ offer.option = option

BeforeUp == {"off", "bridges", "displays", "outputs", "platform", "offers",
             "SimpleInit", "UP"}

KeyInv ==
  /\ NumbersAreFine
  /\ phase \in BeforeUp => "UP" \notin DOMAIN keys
  /\ phase = "UP" /\ OptionSimpleInit \in DOMAIN options =>
       Starts(found, "UP", OptionSimpleInit, options[OptionSimpleInit])
  /\ phase = "offers" =>
       /\ offers \in Seq(Offered)
       /\ \A n \in DOMAIN CurrentBootOptions :
            n \in DOMAIN options /\ options[n] = CurrentBootOptions[n]
  /\ phase \in {"off", "bridges", "displays", "outputs", "platform"} =>
       DOMAIN keys = {}
  /\ \A key \in DOMAIN keys :
       keys[key] \in DOMAIN options
         /\ Starts(found, key, keys[key], options[keys[key]])

(* The invariant of keys gives the property of hotkeys.                    *)
LEMMA KeyInvIsHotkeys == KeyInv => HotkeysStartTheirOptions
  BY DEF KeyInv, HotkeysStartTheirOptions, Starts

\* Options that keep their numbers keep their keys.
LEMMA KeysFollow ==
  ASSUME KeyInv, found' = found \/ "UP" \notin DOMAIN keys,
         \A n \in DOMAIN options : n \in DOMAIN options'
                                   /\ options'[n] = options[n]
  PROVE  \A key \in DOMAIN keys :
           keys[key] \in DOMAIN options'
             /\ Starts(found', key, keys[key], options'[keys[key]])
  BY DEF KeyInv, Starts

\* So does a key that is added for an option it starts.
LEMMA AddedKey ==
  ASSUME NEW key, NEW number, AddKeyOption(key, number),
         \A k \in DOMAIN keys :
           keys[k] \in DOMAIN options'
             /\ Starts(found', k, keys[k], options'[keys[k]]),
         number \in DOMAIN options'
           => Starts(found', key, number, options'[number])
  PROVE  /\ \A k \in DOMAIN keys' :
              keys'[k] \in DOMAIN options'
                /\ Starts(found', k, keys'[k], options'[keys'[k]])
         /\ DOMAIN keys' \subseteq DOMAIN keys \cup {key}
<1>1. CASE UNCHANGED keys
  BY <1>1
<1>2. CASE keys' = With(keys, key, number) /\ number \in DOMAIN options'
           /\ key \notin DOMAIN keys
  <2>1. DOMAIN keys' = DOMAIN keys \cup {key} /\ keys'[key] = number
        /\ \A k \in DOMAIN keys : keys'[k] = keys[k]
    BY <1>2 DEF With
  <2>. QED
    BY <1>2, <2>1
<1>. QED
  BY <1>1, <1>2 DEF AddKeyOption

\* An option that nobody has registered gets the first free number.
LEMMA NewOption ==
  ASSUME NEW option, NEW number, Numbers(options, option) = {},
         PlatformRegisterFvBootOption(option, number)
  PROVE  number = FreeOptionNumber
<1> DEFINE unassigned == LoadOptionNumberUnassigned % 65536
<1>1. IF Numbers(options, option) # {}
        THEN number = unassigned /\ UNCHANGED options
        ELSE /\ number = FreeOptionNumber
             /\ AddLoadOption(option) \/ UNCHANGED options
  BY SMT DEF PlatformRegisterFvBootOption, NumberOf
<1>. HIDE DEF unassigned
<1>. QED
  BY <1>1, Zenon

(* Every step keeps the invariant of keys.                                 *)
LEMMA KeyInvInductive == KeyInv /\ [Next]_vars => KeyInv'
<1> SUFFICES ASSUME KeyInv, [Next]_vars PROVE KeyInv'
  OBVIOUS
<1>0. NumbersAreFine
  BY DEF KeyInv
<1>1. CASE PowerOn
  <2>1. /\ options' \in DriverOptions /\ keys' = keys /\ phase' = "bridges"
        /\ phase = "off"
    BY <1>1 DEF PowerOn, At, Goto
  <2>2. NumbersAreFine' /\ DOMAIN keys = {}
    BY <2>1, OptionsAssumption DEF NumbersAreFine, KeyInv
  <2>. QED
    BY <2>1, <2>2 DEF KeyInv, BeforeUp
<1>2. CASE FilterAndProcess
  <2>1. /\ UNCHANGED optionVars
        /\ phase' \in {phase, "displays", "outputs", "platform"}
        /\ phase \in {"bridges", "displays", "outputs"}
    BY <1>2 DEF FilterAndProcess, ExceptConsoles, Goto, Loops
  <2>. QED
    BY <2>1 DEF optionVars, KeyInv, NumbersAreFine, BeforeUp
<1>3. CASE LocatePlatformOptions
  <2>1. /\ phase = "platform" /\ phase' = "offers"
        /\ offers' \in PlatformOffers \cup {<<>>}
        /\ CurrentBootOptions' = options
        /\ UNCHANGED <<options, keys, OptionSimpleInit, found>>
    BY <1>3 DEF LocatePlatformOptions, At, Goto
  <2>2. offers' \in Seq(Offered)
    <3>1. <<>> \in Seq(Offered) /\ PlatformOffers \subseteq Seq(Offered)
      BY OptionsAssumption
    <3>. QED
      BY <2>1, <3>1
  <2>. QED
    BY <2>1, <2>2 DEF KeyInv, NumbersAreFine, BeforeUp
<1>4. CASE RegisterOffer
  <2> DEFINE offer == Head(offers)
             match == Numbers(CurrentBootOptions, offer.option)
             number == IF match # {} THEN Least(match) ELSE Assigned(offer.number)
  <2>1. /\ phase = "offers" /\ phase' = "offers"
        /\ offers # <<>> /\ offers' = Tail(offers)
        /\ UNCHANGED <<CurrentBootOptions, OptionSimpleInit, found>>
        /\ "UP" \notin DOMAIN keys
    BY <1>4 DEF RegisterOffer, At, KeyInv, BeforeUp
  <2>2. /\ offers' \in Seq(Offered) /\ offer \in Offered
        /\ offer.number \in 0..LoadOptionNumberUnassigned /\ offer.key # "UP"
    <3>1. offers' \in Seq(Offered) /\ offer \in Offered
      BY <2>1 DEF KeyInv
    <3>. QED
      BY <3>1, OptionsAssumption
  <2>3. CASE UNCHANGED <<options, keys>>
    BY <2>1, <2>2, <2>3 DEF KeyInv, NumbersAreFine, BeforeUp
  <2>4. CASE match # {} /\ UNCHANGED options /\ AddKeyOption(offer.key, number)
    <3>1. match \in SUBSET Nat /\ number = Least(match)
      BY <2>1, <2>4 DEF KeyInv, NumbersAreFine, Numbers
    <3>2. number \in match
      BY <2>4, <3>1, LeastIsMember
    <3>3. number \in DOMAIN options /\ options[number] = offer.option
      BY <2>1, <3>2 DEF KeyInv, Numbers
    <3>4. Starts(found, offer.key, number, options[number])
      BY <2>2, <3>3 DEF Starts
    <3>. HIDE DEF offer, match, number
    <3>5. /\ \A k \in DOMAIN keys' :
               keys'[k] \in DOMAIN options'
                 /\ Starts(found', k, keys'[k], options'[keys'[k]])
          /\ DOMAIN keys' \subseteq DOMAIN keys \cup {offer.key}
      BY <2>1, <2>4, <3>4, KeysFollow, AddedKey
    <3>. QED
      BY <2>1, <2>2, <2>4, <3>5 DEF KeyInv, NumbersAreFine, BeforeUp
  <2>5. CASE match = {} /\ AddNumberedOption(offer.option, number)
             /\ AddKeyOption(offer.key, number)
    <3>1. number = Assigned(offer.number)
      BY <2>5
    <3>2. number \in Nat
      <4>1. FreeOptionNumber \in Nat
        BY <1>0, FreeNumberIsFree
      <4>2. \A n \in 0..LoadOptionNumberUnassigned : n \in Nat
        BY SMT DEF LoadOptionNumberUnassigned
      <4>3. offer.number \in Nat
        BY <2>2, <4>2, Zenon
      <4>. QED
        BY <3>1, <4>1, <4>3 DEF Assigned
    <3>3. offer.key # "UP" /\ offer \in Offered
      BY <2>2
    <3>. HIDE DEF offer, match, number
    <3>4. /\ NumbersAreFine'
          /\ DOMAIN options' = DOMAIN options \cup {number}
          /\ options'[number] = offer.option
          /\ \A n \in DOMAIN options : options'[n] = options[n]
      BY <1>0, <2>5, <3>2, AddedNumber
    <3>5. Starts(found', offer.key, number, options'[number])
      BY <3>3, <3>4 DEF Starts
    <3>6. /\ \A k \in DOMAIN keys' :
               keys'[k] \in DOMAIN options'
                 /\ Starts(found', k, keys'[k], options'[keys'[k]])
          /\ DOMAIN keys' \subseteq DOMAIN keys \cup {offer.key}
      BY <2>1, <2>5, <3>4, <3>5, KeysFollow, AddedKey
    <3>7. \A n \in DOMAIN CurrentBootOptions' :
            n \in DOMAIN options' /\ options'[n] = CurrentBootOptions'[n]
      BY <2>1, <3>4 DEF KeyInv
    <3>. QED
      BY <2>1, <2>2, <3>3, <3>4, <3>6, <3>7 DEF KeyInv, BeforeUp
  <2>. QED
    BY <1>4, <2>3, <2>4, <2>5 DEF RegisterOffer
<1>5. ASSUME NEW option, UNCHANGED options \/ AddLoadOption(option)
      PROVE  /\ NumbersAreFine'
             /\ \A n \in DOMAIN options : n \in DOMAIN options'
                                          /\ options'[n] = options[n]
  <2>1. CASE UNCHANGED options
    BY <1>0, <2>1 DEF NumbersAreFine
  <2>2. CASE AddLoadOption(option)
    BY <1>0, <2>2, AddedOption
  <2>. QED
    BY <1>5, <2>1, <2>2
<1>6. CASE GetBootManagerMenu
  <2>1. /\ phase = "offers" /\ phase' = "SimpleInit" /\ UNCHANGED <<keys, found>>
        /\ UNCHANGED options \/ AddLoadOption("BootManagerMenu")
    BY <1>6 DEF GetBootManagerMenu, At, Goto
  <2>2. /\ NumbersAreFine'
        /\ \A n \in DOMAIN options : n \in DOMAIN options'
                                     /\ options'[n] = options[n]
    BY <1>5, <2>1
  <2>. QED
    BY <2>1, <2>2, KeysFollow DEF KeyInv, BeforeUp
<1>7. CASE RegisterSimpleInit
  <2>1. /\ phase = "SimpleInit" /\ phase' = "UP" /\ keys' = keys
        /\ found' = (Numbers(options, "SimpleInit") # {})
        /\ PlatformRegisterFvBootOption("SimpleInit", OptionSimpleInit')
        /\ "UP" \notin DOMAIN keys
    BY <1>7 DEF RegisterSimpleInit, At, Goto, KeyInv, BeforeUp
  <2>2. UNCHANGED options \/ AddLoadOption("SimpleInit")
    BY <2>1 DEF PlatformRegisterFvBootOption
  <2>3. /\ NumbersAreFine'
        /\ \A n \in DOMAIN options : n \in DOMAIN options'
                                     /\ options'[n] = options[n]
    BY <1>5, <2>2
  <2>4. OptionSimpleInit' \in DOMAIN options' =>
          Starts(found', "UP", OptionSimpleInit', options'[OptionSimpleInit'])
    <3>1. CASE Numbers(options, "SimpleInit") # {}
      <4>1. OptionSimpleInit' = 0
        BY <2>1, <3>1
        DEF PlatformRegisterFvBootOption, LoadOptionNumberUnassigned
      <4>. QED
        BY <2>1, <3>1, <4>1 DEF Starts
    <3>2. CASE Numbers(options, "SimpleInit") = {}
      <4>0. ~found'
        BY <2>1, <3>2
      <4>1. OptionSimpleInit' = FreeOptionNumber
        BY <2>1, <3>2, NewOption
      <4>2. CASE UNCHANGED options
        BY <1>0, <4>1, <4>2, FreeNumberIsFree
      <4>3. CASE AddLoadOption("SimpleInit")
        BY <1>0, <4>0, <4>1, <4>3, AddedOption DEF Starts
      <4>. QED
        BY <2>2, <4>2, <4>3
    <3>. QED
      BY <3>1, <3>2
  <2>. QED
    BY <2>1, <2>3, <2>4, KeysFollow DEF KeyInv, BeforeUp
<1>8. CASE RegisterUp
  <2>1. /\ phase = "UP" /\ phase' = "capsules" /\ UNCHANGED <<options, found>>
        /\ AddKeyOption("UP", OptionSimpleInit)
    BY <1>8 DEF RegisterUp, At, Goto
  <2>2. OptionSimpleInit \in DOMAIN options' =>
          Starts(found', "UP", OptionSimpleInit, options'[OptionSimpleInit])
    BY <2>1 DEF KeyInv
  <2>3. \A k \in DOMAIN keys' :
          keys'[k] \in DOMAIN options'
            /\ Starts(found', k, keys'[k], options'[keys'[k]])
    BY <2>1, <2>2, KeysFollow, AddedKey
  <2>. QED
    BY <2>1, <2>3 DEF KeyInv, NumbersAreFine, BeforeUp
<1>9. ASSUME NEW left, Reset(left) PROVE KeyInv'
  <2>1. /\ phase' = "off" /\ DOMAIN options' = {} /\ DOMAIN keys' = {}
    BY <1>9 DEF Reset, Goto, Empty
  <2>. QED
    BY <2>1, FS_EmptySet DEF KeyInv, NumbersAreFine
<1>10. CASE ProcessCapsule \/ Wait
  <2>1. /\ UNCHANGED <<options, keys, found>>
        /\ phase' \in {phase, "refresh", "started"} /\ phase \notin BeforeUp
    BY <1>10 DEF ProcessCapsule, Wait, At, Goto, optionVars, BeforeUp
  <2>. QED
    BY <2>1 DEF KeyInv, NumbersAreFine, BeforeUp
<1>11. CASE HandleCapsules
  <2>1. CASE phase' = "refresh" /\ UNCHANGED <<options, keys, found>>
    BY <2>1 DEF KeyInv, NumbersAreFine, BeforeUp
  <2>. QED
    BY <1>9, <1>11, <2>1 DEF HandleCapsules, Goto, optionVars
<1>12. CASE RefreshAllBootOption
  <2>1. /\ phase' = "UefiShell" /\ UNCHANGED <<keys, found>>
        /\ UNCHANGED options \/ AddLoadOption("Disk")
    BY <1>12 DEF RefreshAllBootOption, Goto
  <2>2. /\ NumbersAreFine'
        /\ \A n \in DOMAIN options : n \in DOMAIN options'
                                     /\ options'[n] = options[n]
    BY <1>5, <2>1
  <2>. QED
    BY <2>1, <2>2, KeysFollow DEF KeyInv, BeforeUp
<1>13. CASE RegisterFvOptions
  <2>1. PICK option \in {"UefiShell", "UasStorage"}, next \in {"UasStorage", "wait"} :
          RegisterFvOption(option, next)
    BY <1>13 DEF RegisterFvOptions
  <2>2. /\ phase' = next /\ UNCHANGED <<keys, found>>
        /\ UNCHANGED options \/ AddLoadOption(option)
    BY <2>1 DEF RegisterFvOption, PlatformRegisterFvBootOption, Goto
  <2>3. /\ NumbersAreFine'
        /\ \A n \in DOMAIN options : n \in DOMAIN options'
                                     /\ options'[n] = options[n]
    BY <1>5, <2>2
  <2>. QED
    BY <2>2, <2>3, KeysFollow DEF KeyInv, BeforeUp
<1>14. CASE Reboot
  BY <1>9, <1>14 DEF Reboot
<1>15. CASE UNCHANGED vars
  BY <1>15 DEF vars, optionVars, KeyInv, NumbersAreFine
<1>. QED
  BY <1>1, <1>2, <1>3, <1>4, <1>6, <1>7, <1>8, <1>10, <1>11, <1>12, <1>13,
     <1>14, <1>15 DEF Next, BootStep

\* Whatever options the drivers, the platform, the menu and the devices add, a
\* hotkey starts the option it was registered for, except that UP starts Boot0000
\* if Simple Init was registered before.
THEOREM HotkeysStartTheirs == Spec => []HotkeysStartTheirOptions
<1>1. Init => KeyInv
  BY FS_EmptySet DEF Init, KeyInv, NumbersAreFine, Empty
<1>. QED
  BY <1>1, KeyInvIsHotkeys, KeyInvInductive, PTL DEF Spec

-----------------------------------------------------------------------------
(* Capsules.                                                               *)
BeforeCapsules == BeforeUp

\* Until the last capsule NeedReset tells whether one was processed; after it
\* the boot goes on only behind a capsule that failed.
CapsuleInv ==
  /\ capsules \in Seq(BOOLEAN)
  /\ updates \in Seq(BOOLEAN)
  /\ phase \in BeforeCapsules => updates = <<>> /\ NeedReset = FALSE
  /\ phase = "capsules" => /\ \A i \in DOMAIN updates : updates[i]
                           /\ updates # <<>> => NeedReset
  /\ phase \notin BeforeCapsules \cup {"capsules"} /\ updates # <<>> =>
       ~updates[Len(updates)]

(* The invariant of capsules gives the property of updates.                *)
LEMMA CapsuleInvEnds == CapsuleInv => UpdatesEndTheBoot
<1> SUFFICES ASSUME CapsuleInv, NEW i \in DOMAIN updates, updates[i],
                    phase \in {"refresh", "UefiShell", "UasStorage", "wait", "started"}
             PROVE  \E j \in DOMAIN updates : j > i /\ ~updates[j]
  BY DEF UpdatesEndTheBoot
<1>1. updates \in Seq(BOOLEAN) /\ updates # <<>>
  BY DEF CapsuleInv
<1>2. ~updates[Len(updates)]
  BY <1>1 DEF CapsuleInv, BeforeCapsules, BeforeUp
<1>3. Len(updates) \in DOMAIN updates /\ i # Len(updates) /\ i \in 1..Len(updates)
  BY <1>1, <1>2
<1>. QED
  BY <1>2, <1>3

(* Every step keeps the invariant of capsules.                             *)
LEMMA CapsuleInvInductive == CapsuleInv /\ [Next]_vars => CapsuleInv'
<1> SUFFICES ASSUME CapsuleInv, [Next]_vars PROVE CapsuleInv'
  OBVIOUS
<1>1. CASE ProcessCapsule
  <2>1. /\ phase = "capsules" /\ capsules # <<>> /\ capsules' = Tail(capsules)
        /\ updates' = Append(updates, Head(capsules))
        /\ capsules \in Seq(BOOLEAN) /\ updates \in Seq(BOOLEAN)
        /\ \A i \in DOMAIN updates : updates[i]
    BY <1>1 DEF ProcessCapsule, At, CapsuleInv
  <2>2. Head(capsules) \in BOOLEAN /\ capsules' \in Seq(BOOLEAN)
    BY <2>1
  <2>3. /\ updates' \in Seq(BOOLEAN) /\ Len(updates') = Len(updates) + 1
        /\ updates'[Len(updates')] = Head(capsules)
        /\ \A i \in 1..Len(updates) : updates'[i] = updates[i]
    BY <2>1, <2>2, AppendProperties
  <2>4. CASE Head(capsules)
    <3>1. NeedReset' /\ phase' = "capsules"
      <4>1. NeedReset' = TRUE /\ phase' = phase
        BY <1>1, <2>4 DEF ProcessCapsule
      <4>. QED
        BY <2>1, <4>1
    <3>2. \A i \in DOMAIN updates' : updates'[i]
      <4>1. /\ DOMAIN updates' = 1..Len(updates) + 1 /\ Len(updates) \in Nat
            /\ \A i \in 1..Len(updates) : updates[i]
        BY <2>1, <2>3
      <4>2. updates'[Len(updates) + 1]
        BY <2>3, <2>4
      <4>3. ASSUME NEW i \in 1..Len(updates) + 1
            PROVE  updates'[i]
        <5>1. CASE i = Len(updates) + 1
          BY <4>2, <5>1
        <5>2. CASE i # Len(updates) + 1
          <6>1. i \in 1..Len(updates)
            BY <4>1, <4>3, <5>2
          <6>2. updates'[i] = updates[i] /\ updates[i]
            BY <2>3, <4>1, <6>1
          <6>. QED
            BY <6>2
        <5>. QED
          BY <5>1, <5>2
      <4>. QED
        BY <4>1, <4>3
    <3>. QED
      BY <2>2, <2>3, <3>1, <3>2 DEF CapsuleInv, BeforeCapsules, BeforeUp
  <2>5. CASE ~Head(capsules)
    <3>1. phase' = "refresh"
      BY <1>1, <2>5 DEF ProcessCapsule, Goto
    <3>. QED
      BY <2>2, <2>3, <2>5, <3>1 DEF CapsuleInv, BeforeCapsules, BeforeUp
  <2>. QED
    BY <2>4, <2>5
<1>2. ASSUME NEW left \in Seq(BOOLEAN), Reset(left) PROVE CapsuleInv'
  BY <1>2 DEF Reset, Goto, CapsuleInv, BeforeCapsules, BeforeUp
<1>3. CASE HandleCapsules
  <2>1. CASE phase' = "refresh" /\ UNCHANGED capsuleVars /\ ~NeedReset
    <3>1. updates = <<>>
      BY <1>3, <2>1 DEF HandleCapsules, At, CapsuleInv
    <3>. QED
      BY <2>1, <3>1 DEF CapsuleInv, capsuleVars, BeforeCapsules, BeforeUp
  <2>2. <<>> \in Seq(BOOLEAN)
    OBVIOUS
  <2>. QED
    BY <1>2, <1>3, <2>1, <2>2 DEF HandleCapsules, Goto, ResetNeeded
<1>4. CASE Reboot
  <2>1. PICK left \in CapsuleLists : Reset(left)
    BY <1>4 DEF Reboot
  <2>. QED
    BY <1>2, <2>1, CapsulesAssumption
<1>5. ASSUME UNCHANGED capsuleVars, phase \in BeforeCapsules,
             phase' \in BeforeCapsules \cup {"capsules"}
      PROVE  CapsuleInv'
  BY <1>5 DEF CapsuleInv, capsuleVars, BeforeCapsules, BeforeUp
<1>6. ASSUME UNCHANGED capsuleVars,
             phase \notin BeforeCapsules \cup {"capsules"},
             phase' \notin BeforeCapsules \cup {"capsules"}
      PROVE  CapsuleInv'
  BY <1>6 DEF CapsuleInv, capsuleVars
<1>7. CASE PowerOn \/ LocatePlatformOptions \/ GetBootManagerMenu
           \/ RegisterSimpleInit \/ RegisterUp
  BY <1>5, <1>7 DEF PowerOn, LocatePlatformOptions, GetBootManagerMenu,
     RegisterSimpleInit, RegisterUp, ExceptOptions, At, Goto, capsuleVars,
     BeforeCapsules, BeforeUp
<1>8. CASE FilterAndProcess
  <2>1. /\ UNCHANGED capsuleVars
        /\ phase' \in {phase, "displays", "outputs", "platform"}
        /\ phase \in {"bridges", "displays", "outputs"}
    BY <1>8 DEF FilterAndProcess, ExceptConsoles, Goto, Loops
  <2>. QED
    BY <1>5, <2>1 DEF BeforeCapsules, BeforeUp
<1>9. CASE RegisterOffer
  BY <1>5, <1>9 DEF RegisterOffer, ExceptOptions, At, BeforeCapsules, BeforeUp
<1>10. CASE RefreshAllBootOption \/ RegisterFvOptions
  BY <1>6, <1>10 DEF RefreshAllBootOption, RegisterFvOptions, RegisterFvOption,
     ExceptOptions, At, Goto, BeforeCapsules, BeforeUp
<1>11. CASE Wait
  BY <1>6, <1>11 DEF Wait, At, Goto, BeforeCapsules, BeforeUp
<1>12. CASE UNCHANGED vars
  BY <1>12 DEF vars, capsuleVars, CapsuleInv
<1>. QED
  BY <1>1, <1>3, <1>4, <1>7, <1>8, <1>9, <1>10, <1>11, <1>12 DEF Next, BootStep

\* However many capsules a reset leaves, a boot that has processed one starts
\* an option only behind a capsule that failed.
THEOREM UpdatesEndBoots == Spec => []UpdatesEndTheBoot
<1>1. Init => CapsuleInv
  BY CapsulesAssumption DEF Init, CapsuleInv, BeforeCapsules, BeforeUp
<1>. QED
  BY <1>1, CapsuleInvEnds, CapsuleInvInductive, PTL DEF Spec
-----------------------------------------------------------------------------
(* Consoles.                                                               *)

\* While the last loop runs, an output it has not come to is still in todo.
ConsoleInv ==
  /\ phase = "outputs" =>
       handles \cap OutputHandles \subseteq (ConOut \cup refused \cup missed) \cup todo
  /\ phase = "platform" =>
       handles \cap OutputHandles \subseteq ConOut \cup refused \cup missed
  /\ ErrOut \subseteq ConOut

(* Each device a loop passes, and the change to the next loop, keep what   *)
(* the loops before have done.                                             *)
LEMMA FilterAndProcessConsoles ==
  ASSUME ConsoleInv, FilterAndProcess
  PROVE  ConsoleInv'
<1>1. CASE todo # {}
  <2>1. PICK h \in todo : Process(h) /\ todo' = todo \ {h}
                       /\ UNCHANGED <<phase, missed>>
    BY <1>1 DEF FilterAndProcess
  <2>2. CASE phase = "outputs"
    <3>1. AddOutput(h)
      BY <2>1, <2>2 DEF Process, At
    <3>2. /\ handles' = handles
          /\ \/ ConOut' = ConOut \cup {h} /\ refused' = refused
             \/ ConOut' = ConOut /\ refused' = refused \cup {h}
          /\ \/ ErrOut' = ErrOut
             \/ ErrOut' = ErrOut \cup {h} /\ ConOut' = ConOut \cup {h}
      BY <3>1 DEF AddOutput
    <3>. QED
      BY <2>1, <2>2, <3>2 DEF ConsoleInv
  <2>3. CASE phase # "outputs"
    <3>1. phase \in {"bridges", "displays"}
      BY <2>3 DEF FilterAndProcess, Loops
    <3>2. UNCHANGED <<ConOut, ErrOut>>
      BY <2>1, <2>3 DEF Process, Connect, At
    <3>. QED
      BY <2>1, <3>1, <3>2 DEF ConsoleInv
  <2>. QED
    BY <2>2, <2>3
<1>2. CASE todo = {}
  <2>1. /\ UNCHANGED <<handles, refused, ConOut, ErrOut>>
        /\ phase' = Loops[phase]
        /\ todo' \in Located(Loops[phase])
        /\ missed' = IF Loops[phase] = "outputs" /\ todo' = {}
                     THEN handles \cap OutputHandles ELSE missed
        /\ phase \in {"bridges", "displays", "outputs"}
    BY <1>2 DEF FilterAndProcess, Goto, Loops
  <2>2. CASE phase = "bridges"
    <3>1. phase' = "displays"
      BY <2>1, <2>2 DEF Loops
    <3>. QED
      BY <2>1, <3>1 DEF ConsoleInv
  <2>3. CASE phase = "displays"
    <3>1. /\ phase' = "outputs"
          /\ todo' \in {{}, handles \cap OutputHandles}
          /\ todo' = {} => missed' = handles \cap OutputHandles
      BY <2>1, <2>3 DEF Loops, Located
    <3>. QED
      BY <2>1, <3>1 DEF ConsoleInv
  <2>4. CASE phase = "outputs"
    <3>1. phase' = "platform" /\ missed' = missed
      BY <2>1, <2>4 DEF Loops
    <3>. QED
      BY <1>2, <2>1, <2>4, <3>1 DEF ConsoleInv
  <2>. QED
    BY <2>1, <2>2, <2>3, <2>4
<1>. QED
  BY <1>1, <1>2

(* Every step keeps the invariant of consoles.                             *)
LEMMA ConsoleInvInductive == ConsoleInv /\ [Next]_vars => ConsoleInv'
<1> SUFFICES ASSUME ConsoleInv, [Next]_vars PROVE ConsoleInv'
  OBVIOUS
<1>1. CASE PowerOn
  BY <1>1 DEF PowerOn, Goto, ConsoleInv
<1>2. CASE FilterAndProcess
  BY <1>2, FilterAndProcessConsoles
<1>3. ASSUME phase' \notin {"outputs", "platform"}, UNCHANGED <<ConOut, ErrOut>>
      PROVE  ConsoleInv'
  BY <1>3 DEF ConsoleInv
<1>4. CASE LocatePlatformOptions \/ GetBootManagerMenu \/ RegisterSimpleInit
           \/ RegisterUp \/ RefreshAllBootOption
  BY <1>3, <1>4
  DEF LocatePlatformOptions, GetBootManagerMenu, RegisterSimpleInit, RegisterUp,
      RefreshAllBootOption, ExceptOptions, consoleVars, Goto
<1>5. CASE RegisterOffer
  BY <1>3, <1>5 DEF RegisterOffer, ExceptOptions, consoleVars, At
<1>6. CASE RegisterFvOptions
  <2>1. PICK option \in {"UefiShell", "UasStorage"}, next \in {"UasStorage", "wait"} :
          RegisterFvOption(option, next)
    BY <1>6 DEF RegisterFvOptions
  <2>. QED
    BY <1>3, <2>1 DEF RegisterFvOption, ExceptOptions, consoleVars, Goto
<1>7. CASE ProcessCapsule \/ Wait
  BY <1>3, <1>7 DEF ProcessCapsule, Wait, consoleVars, At, Goto
<1>8. ASSUME NEW left, Reset(left) PROVE ConsoleInv'
  BY <1>8 DEF Reset, Goto, ConsoleInv
<1>9. CASE HandleCapsules
  <2>1. CASE phase' = "refresh" /\ UNCHANGED <<ConOut, ErrOut>>
    BY <1>3, <2>1
  <2>. QED
    BY <1>8, <1>9, <2>1 DEF HandleCapsules, Goto, consoleVars
<1>10. CASE Reboot
  BY <1>8, <1>10 DEF Reboot
<1>11. CASE UNCHANGED vars
  BY <1>11 DEF vars, consoleVars, ConsoleInv
<1>. QED
  BY <1>1, <1>2, <1>4, <1>5, <1>6, <1>7, <1>9, <1>10, <1>11 DEF Next, BootStep

\* Whatever handles there are and whatever locating and connecting them produces
\* or fails to, each graphics output present when the platform's options are
\* registered shows the console, was refused or was present while the outputs
\* could not be located, and none shows errors alone.
THEOREM GraphicsBecomeConsoles == Spec => []GraphicsAreConsoles
<1>1. Init => ConsoleInv
  BY DEF Init, ConsoleInv
<1>2. ConsoleInv => GraphicsAreConsoles
  BY DEF ConsoleInv, GraphicsAreConsoles, At
<1>. QED
  BY <1>1, <1>2, ConsoleInvInductive, PTL DEF Spec
=============================================================================
