---------------------------- MODULE TerminalProofs ----------------------------
(***************************************************************************)
(* The event rings of Terminal are queues, for rings of any size: the      *)
(* bytes on their way to the two drivers, and the invariant that joins     *)
(* them to the rings.                                                      *)
(***************************************************************************)
EXTENDS Terminal, EventRingProofs, WellFoundedInduction, TLAPS

(***************************************************************************)
(* The inductive invariant                                                 *)
(***************************************************************************)
Modes == [shift : BOOLEAN, ctrl : BOOLEAN, caps : BOOLEAN, extended : BOOLEAN]

MouseBytes == [bit3 : BOOLEAN, left : BOOLEAN, means : MouseEvents \cup {None}]
Packets == [bytes : Seq(MouseBytes), skip : BOOLEAN]

RingTypes ==
    /\ IsRing(keys, KeyRing, KeyEvents)
    /\ IsRing(mice, MouseRing, MouseEvents)
    /\ mod \in Modes
    /\ held \subseteq Modifiers
    /\ packet \in Packets
    /\ count \in [keys : Nat, packets : Nat]

\* The driver's modifiers are the keys held.
ShiftOK == mod.shift <=> "shift" \in held
CtrlOK == mod.ctrl <=> "ctrl" \in held

Byte(k, up, means) == [key |-> k, up |-> up, means |-> means]

PlainKeys == Letters \cup Others \cup {"caps"}

\* What may be on the wire, and what the driver makes of its first byte.
PlainWire(k, m) ==
    /\ ShiftOK /\ CtrlOK /\ mod.extended = FALSE
    /\ \/ wire = <<Byte(k, FALSE, m), Byte(k, TRUE, None)>> /\ m = Decode(Byte(k, FALSE, m), mod)
       \/ wire = <<Byte(k, TRUE, None)>>

ArrowWire(k) ==
    LET down == Byte(k, FALSE, Event(k, None))
        up == Byte(k, TRUE, None)
    IN  /\ ShiftOK /\ CtrlOK
        /\ \/ mod.extended = FALSE /\ wire \in {<<Prefix, down, Prefix, up>>, <<Prefix, up>>}
           \/ mod.extended = TRUE /\ wire \in {<<down, Prefix, up>>, <<up>>}

ModifierWire(k, up) ==
    /\ wire = <<Byte(k, up, None)>>
    /\ mod.extended = FALSE
    /\ k \in held <=> ~up
    /\ k # "shift" => ShiftOK
    /\ k # "ctrl" => CtrlOK

WireOK ==
    \/ wire = <<>> /\ ShiftOK /\ CtrlOK /\ mod.extended = FALSE
    \/ \E k \in PlainKeys, m \in KeyEvents \cup {None} : PlainWire(k, m)
    \/ \E k \in Arrows : ArrowWire(k)
    \/ \E k \in Modifiers, up \in BOOLEAN : ModifierWire(k, up)

\* The same for the mouse: what is left of a packet, and what came before.
PacketLeft(left, bit3) ==
    LET first == MouseByte(TRUE, left, None)
        second == MouseByte(bit3, FALSE, None)
        third == MouseByte(bit3, FALSE, IF packet.skip THEN None ELSE Event("mouse", left))
    IN  \/ aux = <<first, second, third>> /\ packet.bytes = <<>>
        \/ aux = <<second, third>> /\ packet.bytes = <<first>>
        \/ aux = <<third>> /\ packet.bytes = <<first, second>>

AuxOK ==
    \/ /\ aux \in {<<>>, <<MouseByte(FALSE, FALSE, None)>>} /\ packet.bytes = <<>>
       /\ packet.skip = TRUE /\ count.packets = 0
    \/ aux = <<>> /\ packet.bytes = <<>> /\ packet.skip = FALSE /\ count.packets > 0
    \/ count.packets > 0 /\ \E left, bit3 \in BOOLEAN : PacketLeft(left, bit3)

IndInv == RingTypes /\ WireOK /\ AuxOK /\ RingsAreQueues

USE DEF Modifiers, Arrows, Others

\* At boot the rings are empty and no key is held.
LEMMA InitInv == Init => IndInv
<1> SUFFICES ASSUME Init PROVE IndInv
  OBVIOUS
<1> USE RingsAssumption
<1>1. IsRing(keys, KeyRing, KeyEvents) /\ IsRing(mice, MouseRing, MouseEvents)
  BY DEF Init, Ring, IsRing
<1>2. RingTypes
  BY <1>1 DEF Init, RingTypes, Modes, Packets
<1>3. RingsAreQueues
  <2>1. IsEmpty(keys) /\ IsEmpty(mice)
    BY DEF Init, Ring, IsEmpty
  <2>2. Held(keys) = <<>> /\ Held(mice) = <<>>
    BY <1>1, <2>1, HeldSeq, Zenon
  <2> QED
    BY <2>2 DEF Init, RingsAreQueues
<1>4. WireOK /\ AuxOK
  BY Zenon DEF Init, WireOK, AuxOK, ShiftOK, CtrlOK
<1> QED
  BY <1>2, <1>3, <1>4 DEF IndInv

\* A key that is no modifier changes at most Caps Lock.
LEMMA PlainMode ==
    ASSUME NEW b, b.key \notin Modifiers
    PROVE  Modified(b, mod) \in {mod, [mod EXCEPT !.caps = ~@]}
<1>1. CASE mod.extended
  BY <1>1 DEF Modified
<1>2. CASE ~mod.extended /\ b.key = "caps" /\ ~b.up
  BY <1>2 DEF Modified
<1>3. CASE ~mod.extended /\ ~(b.key = "caps" /\ ~b.up)
  BY <1>3 DEF Modified
<1> QED
  BY <1>1, <1>2, <1>3

\* The driver decodes a byte to what the key meant (keyboard::irq), and keeps
\* up with the modifiers.
LEMMA WireStep ==
    ASSUME RingTypes, WireOK, KeyIrq
    PROVE  /\ WireOK' /\ mod' \in Modes
           /\ IF Head(wire) = Prefix THEN Head(wire).means = None
              ELSE /\ Decode(Head(wire), mod) = Head(wire).means
                   /\ Head(wire).means \in KeyEvents \cup {None}
<1> USE LettersAssumption
<1>0. /\ wire # <<>> /\ wire' = Tail(wire) /\ held' = held
      /\ mod' = IF Head(wire) = Prefix THEN [mod EXCEPT !.extended = TRUE]
                ELSE [Modified(Head(wire), mod) EXCEPT !.extended = FALSE]
  BY DEF KeyIrq
<1>1. ASSUME NEW k \in PlainKeys, NEW m \in KeyEvents \cup {None}, PlainWire(k, m)
      PROVE  WireOK' /\ mod' \in Modes /\ Head(wire) # Prefix
             /\ Decode(Head(wire), mod) = Head(wire).means
             /\ Head(wire).means \in KeyEvents \cup {None}
  <2>0. k \notin Modifiers /\ k # "E0" /\ k \notin Arrows
    BY DEF PlainKeys
  <2>1. CASE wire = <<Byte(k, FALSE, m), Byte(k, TRUE, None)>> /\ m = Decode(Byte(k, FALSE, m), mod)
    <3>1. Head(wire) = Byte(k, FALSE, m) /\ wire' = <<Byte(k, TRUE, None)>>
      BY <1>0, <2>1, Tail2, Zenon
    <3>2. Head(wire) # Prefix /\ Head(wire).means = m
      BY <2>0, <3>1 DEF Byte, Prefix
    <3>3. /\ mod' \in Modes /\ mod'.shift = mod.shift /\ mod'.ctrl = mod.ctrl
          /\ mod'.extended = FALSE
      <4>1. Modified(Head(wire), mod) \in {mod, [mod EXCEPT !.caps = ~@]}
        BY <2>0, <3>1, PlainMode DEF Byte
      <4> QED
        BY <1>0, <3>2, <4>1, Zenon DEF RingTypes, Modes
    <3>4. PlainWire(k, m)'
      BY <1>0, <1>1, <3>1, <3>3, Zenon DEF PlainWire, ShiftOK, CtrlOK
    <3> QED
      BY <2>1, <3>1, <3>2, <3>3, <3>4, Zenon DEF WireOK
  <2>2. CASE wire = <<Byte(k, TRUE, None)>>
    <3>1. Head(wire) = Byte(k, TRUE, None) /\ wire' = <<>>
      BY <1>0, <2>2
    <3>2. Head(wire) # Prefix /\ Head(wire).means = None /\ Head(wire).up = TRUE
      BY <2>0, <3>1 DEF Byte, Prefix
    <3>3. /\ mod' \in Modes /\ mod'.shift = mod.shift /\ mod'.ctrl = mod.ctrl
          /\ mod'.extended = FALSE
      <4>1. Modified(Head(wire), mod) \in {mod, [mod EXCEPT !.caps = ~@]}
        BY <2>0, <3>1, PlainMode DEF Byte
      <4> QED
        BY <1>0, <3>2, <4>1, Zenon DEF RingTypes, Modes
    <3>4. WireOK'
      BY <1>0, <1>1, <3>1, <3>3, Zenon DEF WireOK, PlainWire, ShiftOK, CtrlOK
    <3>5. Decode(Head(wire), mod) = None
      BY <1>1, <3>2 DEF Decode, PlainWire
    <3> QED
      BY <3>2, <3>3, <3>4, <3>5
  <2> QED
    BY <1>1, <2>1, <2>2, Zenon DEF PlainWire
<1>2. ASSUME NEW k \in Arrows, ArrowWire(k)
      PROVE  /\ WireOK' /\ mod' \in Modes
             /\ IF Head(wire) = Prefix THEN Head(wire).means = None
                ELSE /\ Decode(Head(wire), mod) = Head(wire).means
                     /\ Head(wire).means \in KeyEvents \cup {None}
  <2> DEFINE down == Byte(k, FALSE, Event(k, None))
             up == Byte(k, TRUE, None)
  <2>0. down # Prefix /\ up # Prefix /\ k # "E0"
    BY DEF Byte, Prefix
  <2>1. CASE mod.extended = FALSE /\ wire \in {<<Prefix, down, Prefix, up>>, <<Prefix, up>>}
    <3>1. Head(wire) = Prefix /\ wire' \in {<<down, Prefix, up>>, <<up>>}
      <4> HIDE DEF down, up
      <4>1. CASE wire = <<Prefix, down, Prefix, up>>
        <5>1. /\ Head(<<Prefix, down, Prefix, up>>) = Prefix
              /\ Tail(<<Prefix, down, Prefix, up>>) = <<down, Prefix, up>>
          BY Tail4
        <5> QED
          BY <1>0, <4>1, <5>1
      <4>2. CASE wire = <<Prefix, up>>
        BY <1>0, <4>2, Tail2, Zenon
      <4> QED
        BY <2>1, <4>1, <4>2
    <3>2. /\ mod' \in Modes /\ mod'.shift = mod.shift /\ mod'.ctrl = mod.ctrl
          /\ mod'.extended = TRUE
      BY <1>0, <3>1, Zenon DEF RingTypes, Modes
    <3>3. ArrowWire(k)'
      BY <1>0, <1>2, <3>1, <3>2, Zenon DEF ArrowWire, ShiftOK, CtrlOK
    <3> QED
      BY <3>1, <3>2, <3>3 DEF WireOK, Prefix
  <2>2. CASE mod.extended = TRUE /\ wire \in {<<down, Prefix, up>>, <<up>>}
    <3>1. \/ Head(wire) = down /\ wire' = <<Prefix, up>>
          \/ Head(wire) = up /\ wire' = <<>>
      <4> HIDE DEF down, up
      <4>1. CASE wire = <<down, Prefix, up>>
        BY <1>0, <4>1, Tail3, Zenon
      <4>2. CASE wire = <<up>>
        BY <1>0, <4>2
      <4> QED
        BY <2>2, <4>1, <4>2
    <3>2. Head(wire) # Prefix
      BY <2>0, <3>1, Zenon
    <3>3. /\ mod' \in Modes /\ mod'.shift = mod.shift /\ mod'.ctrl = mod.ctrl
          /\ mod'.extended = FALSE
      BY <1>0, <2>2, <3>2, Zenon DEF RingTypes, Modes, Modified
    <3>4. WireOK'
      BY <1>0, <1>2, <3>1, <3>3, Zenon DEF WireOK, ArrowWire, ShiftOK, CtrlOK
    <3>5. Decode(Head(wire), mod) = Head(wire).means
      BY <2>2, <3>1 DEF Decode, Byte, Event
    <3>6. Head(wire).means \in KeyEvents \cup {None}
      BY <3>1 DEF Byte, Event, KeyEvents
    <3> QED
      BY <3>2, <3>3, <3>4, <3>5, <3>6
  <2> QED
    BY <1>2, <2>1, <2>2, Zenon DEF ArrowWire
<1>3. ASSUME NEW k \in Modifiers, NEW up \in BOOLEAN, ModifierWire(k, up)
      PROVE  WireOK' /\ mod' \in Modes /\ Head(wire) # Prefix
             /\ Decode(Head(wire), mod) = Head(wire).means
             /\ Head(wire).means \in KeyEvents \cup {None}
  <2>1. Head(wire) = Byte(k, up, None) /\ wire' = <<>>
    BY <1>0, <1>3 DEF ModifierWire
  <2>2. Head(wire) # Prefix /\ Head(wire).means = None /\ Head(wire).key = k /\ Head(wire).up = up
    BY <2>1 DEF Byte, Prefix
  <2>3. mod' = [[mod EXCEPT ![k] = ~up] EXCEPT !.extended = FALSE]
    BY <1>0, <1>3, <2>2, Zenon DEF Modified, ModifierWire
  <2>4. Decode(Head(wire), mod) = None
    BY <1>3, <2>2 DEF Decode, ModifierWire
  <2>5. CASE k = "shift"
    <3>1. mod' \in Modes /\ mod'.shift = ~up /\ mod'.ctrl = mod.ctrl /\ mod'.extended = FALSE
      BY <2>3, <2>5, Zenon DEF RingTypes, Modes
    <3> QED
      BY <1>0, <1>3, <2>1, <2>2, <2>4, <2>5, <3>1, Zenon DEF WireOK, ModifierWire, ShiftOK, CtrlOK
  <2>6. CASE k = "ctrl"
    <3>1. mod' \in Modes /\ mod'.ctrl = ~up /\ mod'.shift = mod.shift /\ mod'.extended = FALSE
      BY <2>3, <2>6, Zenon DEF RingTypes, Modes
    <3> QED
      BY <1>0, <1>3, <2>1, <2>2, <2>4, <2>6, <3>1, Zenon DEF WireOK, ModifierWire, ShiftOK, CtrlOK
  <2> QED
    BY <2>5, <2>6
<1> QED
  BY <1>0, <1>1, <1>2, <1>3, Zenon DEF WireOK

\* What the keyboard has sent depends on nothing but the keyboard's state.
LEMMA WireSame == WireOK /\ UNCHANGED <<wire, held, mod>> => WireOK'
  BY Zenon DEF WireOK, PlainWire, ArrowWire, ModifierWire, ShiftOK, CtrlOK

\* What the mouse has sent depends on nothing but the mouse's state.
LEMMA AuxSame ==
    AuxOK /\ UNCHANGED <<aux, packet>> /\ count'.packets = count.packets => AuxOK'
  BY Zenon DEF AuxOK, PacketLeft

\* Nothing is on the wire: the driver knows the modifiers that are held.
LEMMA QuietWire == WireOK /\ wire = <<>> => ShiftOK /\ CtrlOK /\ mod.extended = FALSE
<1> SUFFICES ASSUME WireOK, wire = <<>> PROVE ShiftOK /\ CtrlOK /\ mod.extended = FALSE
  BY Zenon
<1>1. \A k, m : ~PlainWire(k, m)
  BY DEF PlainWire
<1>2. \A k : ~ArrowWire(k)
  BY DEF ArrowWire
<1>3. \A k, up : ~ModifierWire(k, up)
  BY DEF ModifierWire
<1> QED
  BY <1>1, <1>2, <1>3 DEF WireOK

\* A key that goes down is decoded as it was meant.
LEMMA PressWire ==
    ASSUME RingTypes, WireOK, NEW k \in Keys, PressKey(k)
    PROVE  WireOK' /\ held' \subseteq Modifiers
<1> USE LettersAssumption
<1>0. /\ wire = <<>> /\ k \notin held /\ mod' = mod
      /\ held' = IF k \in Modifiers THEN held \cup {k} ELSE held
      /\ wire' = IF k \in Modifiers THEN Bytes(k, FALSE, None)
                 ELSE Bytes(k, FALSE, Meaning(k)) \o Bytes(k, TRUE, None)
  BY DEF PressKey, Quiet
<1>1. ShiftOK /\ CtrlOK /\ mod.extended = FALSE
  BY <1>0, QuietWire
<1>2. CASE k \in Modifiers
  <2>1. wire' = <<Byte(k, FALSE, None)>> /\ held' = held \cup {k}
    BY <1>0, <1>2, Zenon DEF Bytes, Byte
  <2>2. ModifierWire(k, FALSE)'
    BY <1>0, <1>1, <1>2, <2>1, Zenon DEF ModifierWire, ShiftOK, CtrlOK
  <2> QED
    BY <1>2, <2>1, <2>2, Zenon DEF WireOK, RingTypes
<1>3. CASE k \in Arrows
  <2>1. Meaning(k) = Event(k, None)
    BY <1>3 DEF Meaning
  <2>2. PICK d, u : d = Byte(k, FALSE, Event(k, None)) /\ u = Byte(k, TRUE, None)
    BY Zenon
  <2>3. Bytes(k, FALSE, Meaning(k)) = <<Prefix, d>> /\ Bytes(k, TRUE, None) = <<Prefix, u>>
    BY <1>3, <2>1, <2>2, Zenon DEF Bytes, Byte
  <2>4. wire' = <<Prefix, d, Prefix, u>> /\ held' = held
    <3>1. <<Prefix, d>> \o <<Prefix, u>> = <<Prefix, d, Prefix, u>>
      BY JoinPrefixed
    <3> QED
      BY <1>0, <1>3, <2>3, <3>1, Zenon
  <2>5. ArrowWire(k)'
    BY <1>0, <1>1, <2>2, <2>4, Zenon DEF ArrowWire, ShiftOK, CtrlOK
  <2> QED
    BY <1>3, <2>4, <2>5 DEF WireOK, RingTypes
<1>4. CASE k \in PlainKeys
  <2>0. k \notin Modifiers \cup Arrows
    BY <1>4 DEF PlainKeys
  <2>1. PICK m : m = Meaning(k)
    OBVIOUS
  <2>2. m \in KeyEvents \cup {None} /\ m = Decode(Byte(k, FALSE, m), mod)
    <3>0. mod.ctrl \in BOOLEAN /\ mod.shift \in BOOLEAN /\ mod.caps \in BOOLEAN
      BY DEF RingTypes, Modes
    <3>1. CASE k = "caps"
      BY <1>1, <2>0, <2>1, <3>1 DEF Meaning, Decode, Byte
    <3>2. CASE k \in Others
      BY <1>1, <2>0, <2>1, <3>2 DEF Meaning, Decode, Byte, Event, KeyEvents
    <3>3. CASE k \in Letters
      <4>1. m = Letter(k, "ctrl" \in held, "shift" \in held \/ mod.caps)
        BY <2>0, <2>1, <3>3 DEF Meaning
      <4>2. Decode(Byte(k, FALSE, m), mod) = Letter(k, mod.ctrl, mod.shift \/ mod.caps)
        BY <1>1, <2>0, <3>3 DEF Decode, Byte
      <4>3. Letter(k, mod.ctrl, mod.shift \/ mod.caps)
              = Letter(k, "ctrl" \in held, "shift" \in held \/ mod.caps)
        BY <1>1, <3>0 DEF Letter, ShiftOK, CtrlOK
      <4>4. m \in KeyEvents
        BY <3>0, <3>3, <4>1, Zenon DEF Letter, Event, KeyEvents
      <4> QED
        BY <4>1, <4>2, <4>3, <4>4, Zenon
    <3> QED
      BY <1>4, <3>1, <3>2, <3>3, Zenon DEF PlainKeys
  <2>3. Bytes(k, FALSE, m) = <<Byte(k, FALSE, m)>> /\ Bytes(k, TRUE, None) = <<Byte(k, TRUE, None)>>
    BY <2>0, Zenon DEF Bytes, Byte
  <2>4. wire' = <<Byte(k, FALSE, m), Byte(k, TRUE, None)>> /\ held' = held
    <3>1. <<Byte(k, FALSE, m)>> \o <<Byte(k, TRUE, None)>> = <<Byte(k, FALSE, m), Byte(k, TRUE, None)>>
      BY Join, Zenon
    <3> QED
      BY <1>0, <2>0, <2>1, <2>3, <3>1, Zenon
  <2>5. PlainWire(k, m)'
    BY <1>0, <1>1, <2>2, <2>4, Zenon DEF PlainWire, ShiftOK, CtrlOK
  <2> QED
    BY <1>4, <2>2, <2>4, <2>5 DEF WireOK, RingTypes
<1> QED
  BY <1>2, <1>3, <1>4 DEF Keys, PlainKeys

\* A modifier that comes up is no longer held.
LEMMA ReleaseWire ==
    ASSUME RingTypes, WireOK, NEW k \in Modifiers, ReleaseKey(k)
    PROVE  WireOK' /\ held' \subseteq Modifiers
<1>0. wire = <<>> /\ k \in held /\ mod' = mod /\ held' = held \ {k}
      /\ wire' = Bytes(k, TRUE, None)
  BY DEF ReleaseKey, Quiet
<1>1. ShiftOK /\ CtrlOK /\ mod.extended = FALSE
  BY <1>0, QuietWire
<1>2. wire' = <<Byte(k, TRUE, None)>>
  BY <1>0, Zenon DEF Bytes, Byte
<1>3. ModifierWire(k, TRUE)'
  BY <1>0, <1>1, <1>2, Zenon DEF ModifierWire, ShiftOK, CtrlOK
<1> QED
  BY <1>0, <1>3, Zenon DEF WireOK, RingTypes

\* A packet completes when its third byte comes, and counts unless it is the
\* first (mouse::irq).
LEMMA AuxStep ==
    ASSUME RingTypes, AuxOK, MouseIrq
    PROVE  /\ AuxOK' /\ packet' \in Packets
           /\ \/ Head(aux).means = None /\ mice' = mice
              \/ \E left \in BOOLEAN : /\ Head(aux).means = Event("mouse", left)
                                        /\ mice' = Push(mice, Event("mouse", left))
<1>a. aux # <<>> /\ aux' = Tail(aux) /\ count' = count
  BY DEF MouseIrq
<1>b. PICK b, bytes : b = Head(aux) /\ bytes = Append(packet.bytes, Head(aux))
  BY Zenon
<1>0. /\ packet' = IF ~InSync(b) THEN packet
                   ELSE IF Len(bytes) < 3 THEN [packet EXCEPT !.bytes = bytes]
                   ELSE [bytes |-> <<>>, skip |-> FALSE]
      /\ mice' = IF InSync(b) /\ Len(bytes) = 3 /\ ~packet.skip
                 THEN Push(mice, Event("mouse", bytes[1].left)) ELSE mice
  BY <1>b DEF MouseIrq
<1>1. CASE /\ aux = <<MouseByte(FALSE, FALSE, None)>> /\ packet.bytes = <<>>
           /\ packet.skip = TRUE /\ count.packets = 0
  <2>1. Head(aux) = MouseByte(FALSE, FALSE, None) /\ aux' = <<>>
    BY <1>1, <1>a
  <2>2. ~InSync(b) /\ Head(aux).means = None
    BY <1>1, <1>b, <2>1 DEF InSync, MouseByte
  <2>3. packet' = packet /\ mice' = mice /\ count' = count
    BY <1>0, <1>a, <2>2
  <2>4. AuxOK'
    BY <1>1, <2>1, <2>3 DEF AuxOK
  <2> QED
    BY <2>2, <2>3, <2>4 DEF RingTypes
<1>2. ASSUME count.packets > 0, NEW left \in BOOLEAN, NEW bit3 \in BOOLEAN, PacketLeft(left, bit3)
      PROVE  /\ AuxOK' /\ packet' \in Packets
             /\ \/ Head(aux).means = None /\ mice' = mice
                \/ /\ Head(aux).means = Event("mouse", left)
                   /\ mice' = Push(mice, Event("mouse", left))
  <2>1. PICK b1, b2, b3 :
            /\ b1 = MouseByte(TRUE, left, None) /\ b2 = MouseByte(bit3, FALSE, None)
            /\ b3 = MouseByte(bit3, FALSE, IF packet.skip THEN None ELSE Event("mouse", left))
    BY Zenon
  <2>2. \/ aux = <<b1, b2, b3>> /\ packet.bytes = <<>>
        \/ aux = <<b2, b3>> /\ packet.bytes = <<b1>>
        \/ aux = <<b3>> /\ packet.bytes = <<b1, b2>>
    BY <1>2, <2>1, Zenon DEF PacketLeft
  <2>3. /\ b1.bit3 = TRUE /\ b1.left = left /\ b1.means = None /\ b2.means = None
        /\ b3.means = IF packet.skip THEN None ELSE Event("mouse", left)
        /\ b1 \in MouseBytes /\ b2 \in MouseBytes /\ b3 \in MouseBytes
    BY <2>1 DEF MouseByte, MouseBytes, MouseEvents, Event
  <2>4. CASE aux = <<b1, b2, b3>> /\ packet.bytes = <<>>
    <3>0. Append(packet.bytes, b1) = <<b1>> /\ Len(<<b1>>) = 1 /\ <<b1>> \in Seq(MouseBytes)
      BY <2>3, <2>4, Packet1
    <3>1. Head(aux) = b1 /\ Tail(aux) = <<b2, b3>>
      BY <2>4, Tail3
    <3>2. packet' = [packet EXCEPT !.bytes = <<b1>>] /\ mice' = mice
      <4>1. InSync(b) /\ bytes = <<b1>> /\ Len(bytes) = 1
        BY <1>b, <2>3, <3>0, <3>1 DEF InSync
      <4> QED
        BY <1>0, <4>1
    <3>3. packet' \in Packets /\ packet'.bytes = <<b1>> /\ packet'.skip = packet.skip
      BY <3>0, <3>2, Zenon DEF RingTypes, Packets
    <3>4. PacketLeft(left, bit3)'
      BY <1>a, <2>1, <3>1, <3>3, Zenon DEF PacketLeft
    <3> QED
      BY <1>2, <1>a, <2>3, <3>1, <3>2, <3>3, <3>4 DEF AuxOK
  <2>5. CASE aux = <<b2, b3>> /\ packet.bytes = <<b1>>
    <3>0. Append(packet.bytes, b2) = <<b1, b2>> /\ Len(<<b1, b2>>) = 2 /\ <<b1, b2>> \in Seq(MouseBytes)
      BY <2>3, <2>5, Packet2
    <3>1. Head(aux) = b2 /\ Tail(aux) = <<b3>>
      BY <2>5, Tail2
    <3>2. packet' = [packet EXCEPT !.bytes = <<b1, b2>>] /\ mice' = mice
      <4>1. InSync(b) /\ bytes = <<b1, b2>> /\ Len(bytes) = 2
        BY <1>b, <2>5, <3>0, <3>1 DEF InSync
      <4> QED
        BY <1>0, <4>1
    <3>3. packet' \in Packets /\ packet'.bytes = <<b1, b2>> /\ packet'.skip = packet.skip
      BY <3>0, <3>2, Zenon DEF RingTypes, Packets
    <3>4. PacketLeft(left, bit3)'
      BY <1>a, <2>1, <3>1, <3>3, Zenon DEF PacketLeft
    <3> QED
      BY <1>2, <1>a, <2>3, <3>1, <3>2, <3>3, <3>4 DEF AuxOK
  <2>6. CASE aux = <<b3>> /\ packet.bytes = <<b1, b2>>
    <3>0. /\ Append(packet.bytes, b3) = <<b1, b2, b3>>
          /\ Len(<<b1, b2, b3>>) = 3 /\ <<b1, b2, b3>>[1] = b1
      BY <2>3, <2>6, Packet3
    <3>1. Head(aux) = b3 /\ Tail(aux) = <<>>
      BY <2>6
    <3>2. packet' = [bytes |-> <<>>, skip |-> FALSE]
          /\ mice' = IF packet.skip THEN mice ELSE Push(mice, Event("mouse", left))
      <4>1. InSync(b) /\ bytes = <<b1, b2, b3>> /\ Len(bytes) = 3 /\ bytes[1] = b1
        BY <1>b, <2>6, <3>0, <3>1 DEF InSync
      <4> QED
        BY <1>0, <2>3, <4>1
    <3> QED
      <4>1. aux' = <<>> /\ packet' \in Packets /\ AuxOK'
        <5>1. aux' = <<>> /\ packet'.bytes = <<>> /\ packet'.skip = FALSE /\ packet' \in Packets
          <6>1. <<>> \in Seq(MouseBytes)
            OBVIOUS
          <6> QED
            BY <1>a, <3>1, <3>2, <6>1 DEF Packets
        <5> QED
          BY <1>2, <1>a, <5>1, Zenon DEF AuxOK, RingTypes
      <4> QED
        BY <2>3, <3>1, <3>2, <4>1
  <2> QED
    BY <2>2, <2>4, <2>5, <2>6
<1> QED
  BY <1>1, <1>2, <1>a, Zenon DEF AuxOK

\* A packet is sent when nothing is left of the one before.
LEMMA SendAux ==
    ASSUME RingTypes, AuxOK, NEW left \in BOOLEAN, NEW bit3 \in BOOLEAN, SendPacket(left, bit3)
    PROVE  AuxOK'
<1>1. aux = <<>> /\ packet' = packet /\ count' = [count EXCEPT !.packets = @ + 1]
  BY DEF SendPacket, Quiet
<1>2. aux' = <<MouseByte(TRUE, left, None), MouseByte(bit3, FALSE, None),
               MouseByte(bit3, FALSE, IF count.packets = 0 THEN None ELSE Event("mouse", left))>>
  BY DEF SendPacket
<1>3. packet.bytes = <<>> /\ (packet.skip <=> count.packets = 0)
  <2>1. \A l, b : ~PacketLeft(l, b)
    BY <1>1 DEF PacketLeft
  <2>2. count.packets \in Nat
    BY DEF RingTypes
  <2> QED
    BY <1>1, <2>1, <2>2 DEF AuxOK
<1>4. count'.packets > 0
  BY <1>1 DEF RingTypes
<1>5. PacketLeft(left, bit3)'
  <2>1. (IF packet.skip THEN None ELSE Event("mouse", left))
          = IF count.packets = 0 THEN None ELSE Event("mouse", left)
    BY <1>3
  <2> QED
    BY <1>1, <1>2, <1>3, <2>1, Zenon DEF PacketLeft
<1> QED
  BY <1>4, <1>5, Zenon DEF AuxOK

\* Taking the k oldest events of the keyboard's ring takes those of the queue.
LEMMA TakeKeys ==
    ASSUME RingTypes, RingsAreQueues, NEW k \in 0..Len(Held(keys)),
           keys' = Popped(keys, k), keyQueue' = SubSeq(keyQueue, k + 1, Len(keyQueue))
    PROVE  IsRing(keys', KeyRing, KeyEvents) /\ Held(keys') = keyQueue'
<1>1. IsRing(keys, KeyRing, KeyEvents) /\ Held(keys) = keyQueue
  BY DEF RingTypes, RingsAreQueues
<1>2. /\ IsRing(Popped(keys, k), KeyRing, KeyEvents)
      /\ Held(Popped(keys, k)) = SubSeq(Held(keys), k + 1, Len(Held(keys)))
  BY <1>1, PoppedHeld, RingsAssumption
<1> QED
  BY <1>1, <1>2, Zenon

\* A set of positions has a least one.
LEMMA MinIn ==
    ASSUME NEW S, S \subseteq Nat, S # {}
    PROVE  Min(S) \in S
<1>1. IsWellFoundedOn(OpToRel(<, Nat), Nat)
  BY NatLessThanWellFounded, Zenon
<1>2. PICK x \in S : \A y \in S : ~(<<y, x>> \in OpToRel(<, Nat))
  BY <1>1, WFMin, Zenon
<1>3. \A y \in S : x <= y
  <2> SUFFICES ASSUME NEW y \in S PROVE ~(y < x)
    OBVIOUS
  <2>1. ASSUME y < x PROVE <<y, x>> \in OpToRel(<, Nat)
    <3>1. <<y, x>> \in Nat \X Nat /\ <<y, x>>[1] < <<y, x>>[2]
      BY <2>1
    <3> QED
      BY <3>1, Zenon DEF OpToRel
  <2> QED
    BY <1>2, <2>1, Zenon
<1> QED
  BY <1>3, Zenon DEF Min

\* A key pressed or let go only puts bytes on the wire.
LEMMA KeyboardInv ==
    ASSUME IndInv, NEW k \in Keys, PressKey(k) \/ (k \in Modifiers /\ ReleaseKey(k))
    PROVE  IndInv'
<1> USE DEF IndInv
<1>1. WireOK' /\ held' \subseteq Modifiers
  BY PressWire, ReleaseWire
<1>2. /\ UNCHANGED <<mod, keys, keyQueue, aux, packet, mice, mouseQueue>>
      /\ count' \in [keys : Nat, packets : Nat] /\ count'.packets = count.packets
  <2>1. UNCHANGED <<mod, keys, keyQueue, aux, packet, mice, mouseQueue>>
    BY Zenon DEF PressKey, ReleaseKey, mouseVars
  <2>2. count' = count \/ count' = [count EXCEPT !.keys = @ + 1]
    BY Zenon DEF PressKey, ReleaseKey
  <2>3. count' \in [keys : Nat, packets : Nat] /\ count'.packets = count.packets
    BY <2>2 DEF RingTypes
  <2> QED
    BY <2>1, <2>3
<1>3. AuxOK'
  BY <1>2, AuxSame
<1> QED
  BY <1>1, <1>2, <1>3 DEF RingTypes, RingsAreQueues

\* The keyboard's interrupt pushes what the queue is given.
LEMMA KeyIrqInv == ASSUME IndInv, KeyIrq PROVE IndInv'
<1> USE DEF IndInv
<1>1. PICK b, e : b = Head(wire) /\ e = Decode(b, mod)
  OBVIOUS
<1>2. /\ WireOK' /\ mod' \in Modes
      /\ IF b = Prefix THEN b.means = None
         ELSE e = b.means /\ b.means \in KeyEvents \cup {None}
  BY <1>1, WireStep
<1>3. /\ keys' = IF b = Prefix \/ e = None THEN keys ELSE Push(keys, e)
      /\ keyQueue' = Queued(keyQueue, b.means, KeyRing)
  BY <1>1 DEF KeyIrq
<1>4. UNCHANGED <<held, aux, packet, mice, mouseQueue, count>>
  BY DEF KeyIrq, mouseVars
<1>5. IsRing(keys', KeyRing, KeyEvents) /\ Held(keys') = keyQueue'
  <2>1. CASE b.means = None
    <3>1. keys' = keys /\ keyQueue' = keyQueue
      BY <1>2, <1>3, <2>1 DEF Queued
    <3> QED
      BY <3>1 DEF RingTypes, RingsAreQueues
  <2>2. CASE b.means # None
    <3>1. e = b.means /\ e \in KeyEvents /\ e # None /\ b # Prefix
      BY <1>2, <2>2
    <3>2. keys' = Push(keys, e) /\ keyQueue' = Queued(keyQueue, e, KeyRing)
      BY <1>3, <3>1
    <3>3. IsRing(keys, KeyRing, KeyEvents) /\ Held(keys) = keyQueue
      BY DEF RingTypes, RingsAreQueues
    <3>4. IsRing(Push(keys, e), KeyRing, KeyEvents) /\ Held(Push(keys, e)) = Queued(Held(keys), e, KeyRing)
      BY <3>1, <3>3, PushHeld, RingsAssumption
    <3> QED
      BY <3>2, <3>3, <3>4, Zenon
  <2> QED
    BY <2>1, <2>2
<1>6. AuxOK'
  BY <1>4, AuxSame
<1> QED
  BY <1>2, <1>4, <1>5, <1>6 DEF RingTypes, RingsAreQueues

\* A packet sent is not yet an event.
LEMMA SendPacketInv ==
    ASSUME IndInv, NEW left \in BOOLEAN, NEW bit3 \in BOOLEAN, SendPacket(left, bit3)
    PROVE  IndInv'
<1> USE DEF IndInv
<1>1. AuxOK'
  BY SendAux
<1>2. /\ UNCHANGED <<wire, held, mod, keys, keyQueue, packet, mice, mouseQueue>>
      /\ count' \in [keys : Nat, packets : Nat]
  BY DEF SendPacket, kbdVars, RingTypes
<1>3. WireOK'
  BY <1>2, WireSame
<1> QED
  BY <1>1, <1>2, <1>3 DEF RingTypes, RingsAreQueues

\* The mouse's interrupt pushes what the queue is given.
LEMMA MouseIrqInv == ASSUME IndInv, MouseIrq PROVE IndInv'
<1> USE DEF IndInv
<1>1. PICK b : b = Head(aux)
  OBVIOUS
<1>2. /\ AuxOK' /\ packet' \in Packets
      /\ \/ b.means = None /\ mice' = mice
         \/ \E left \in BOOLEAN : /\ b.means = Event("mouse", left)
                                   /\ mice' = Push(mice, Event("mouse", left))
  BY <1>1, AuxStep
<1>3. mouseQueue' = Queued(mouseQueue, b.means, MouseRing)
  BY <1>1 DEF MouseIrq
<1>4. UNCHANGED <<wire, held, mod, keys, keyQueue, count>>
  BY DEF MouseIrq, kbdVars
<1>5. IsRing(mice', MouseRing, MouseEvents) /\ Held(mice') = mouseQueue'
  <2>1. CASE b.means = None /\ mice' = mice
    <3>1. mouseQueue' = mouseQueue
      BY <1>3, <2>1 DEF Queued
    <3> QED
      BY <2>1, <3>1 DEF RingTypes, RingsAreQueues
  <2>2. ASSUME NEW e, e \in MouseEvents, b.means = e, mice' = Push(mice, e)
        PROVE  IsRing(mice', MouseRing, MouseEvents) /\ Held(mice') = mouseQueue'
    <3>1. e # None
      BY <2>2, NoneAssumption
    <3>2. IsRing(mice, MouseRing, MouseEvents) /\ Held(mice) = mouseQueue
      BY DEF RingTypes, RingsAreQueues
    <3>3. IsRing(Push(mice, e), MouseRing, MouseEvents) /\ Held(Push(mice, e)) = Queued(Held(mice), e, MouseRing)
      BY <2>2, <3>1, <3>2, PushHeld, RingsAssumption
    <3> QED
      BY <1>3, <2>2, <3>2, <3>3, Zenon
  <2>3. \A left \in BOOLEAN : Event("mouse", left) \in MouseEvents
    BY DEF Event, MouseEvents
  <2> QED
    BY <1>2, <2>1, <2>2, <2>3
<1>6. WireOK'
  BY <1>4, WireSame
<1> QED
  BY <1>2, <1>4, <1>5, <1>6 DEF RingTypes, RingsAreQueues

\* The desktop takes the oldest movement.
LEMMA HandleMouseInv == ASSUME IndInv, HandleMouse PROVE IndInv'
<1> USE DEF IndInv
<1>1. /\ ~IsEmpty(mice) /\ mice' = Popped(mice, 1) /\ mouseQueue' = Tail(mouseQueue)
      /\ UNCHANGED <<wire, held, mod, keys, keyQueue, aux, packet, count>>
  BY DEF HandleMouse, kbdVars
<1>2. IsRing(mice, MouseRing, MouseEvents) /\ Held(mice) = mouseQueue
  BY DEF RingTypes, RingsAreQueues
<1>3. Held(mice) \in Seq(MouseEvents \cup {None}) /\ Held(mice) # <<>>
  BY <1>1, <1>2, HeldSeq, RingsAssumption
<1>4. Tail(Held(mice)) = SubSeq(Held(mice), 1 + 1, Len(Held(mice))) /\ 1 \in 0..Len(Held(mice))
  BY <1>3, TailSub
<1>5. /\ IsRing(Popped(mice, 1), MouseRing, MouseEvents)
      /\ Held(Popped(mice, 1)) = SubSeq(Held(mice), 1 + 1, Len(Held(mice)))
  BY <1>2, <1>4, PoppedHeld, RingsAssumption
<1>6. IsRing(mice', MouseRing, MouseEvents) /\ Held(mice') = mouseQueue'
  BY <1>1, <1>2, <1>4, <1>5, Zenon
<1>7. WireOK' /\ AuxOK'
  BY <1>1, WireSame, AuxSame
<1> QED
  BY <1>1, <1>6, <1>7 DEF RingTypes, RingsAreQueues

\* Events of the keyboard are taken from the front of the queue.
LEMMA TakeInv ==
    ASSUME IndInv, NEW k \in 0..Len(Held(keys)), keys' = Popped(keys, k),
           keyQueue' = SubSeq(keyQueue, k + 1, Len(keyQueue)),
           UNCHANGED <<wire, held, mod, aux, packet, mice, mouseQueue, count>>
    PROVE  IndInv'
<1> USE DEF IndInv
<1>1. IsRing(keys', KeyRing, KeyEvents) /\ Held(keys') = keyQueue'
  BY TakeKeys
<1>2. WireOK' /\ AuxOK'
  BY WireSame, AuxSame
<1> QED
  BY <1>1, <1>2 DEF RingTypes, RingsAreQueues

\* The window in focus takes the oldest key.
LEMMA TakeKeyInv == ASSUME IndInv, NEW win, TakeKey(win) PROVE IndInv'
<1>1. /\ ~IsEmpty(keys) /\ keys' = Popped(keys, 1) /\ keyQueue' = Tail(keyQueue)
      /\ UNCHANGED <<wire, held, mod, aux, packet, mice, mouseQueue, count>>
  BY DEF TakeKey, mouseVars
<1>2. IsRing(keys, KeyRing, KeyEvents) /\ Held(keys) = keyQueue
  BY DEF IndInv, RingTypes, RingsAreQueues
<1>3. Held(keys) \in Seq(KeyEvents \cup {None}) /\ Held(keys) # <<>>
  BY <1>1, <1>2, HeldSeq, RingsAssumption
<1>4. Tail(Held(keys)) = SubSeq(Held(keys), 1 + 1, Len(Held(keys))) /\ 1 \in 0..Len(Held(keys))
  BY <1>3, TailSub
<1>5. keyQueue' = SubSeq(keyQueue, 1 + 1, Len(keyQueue))
  BY <1>1, <1>2, <1>4, Zenon
<1> QED
  BY <1>1, <1>4, <1>5, TakeInv

\* A read of standard input takes keys up to the first character.
LEMMA SysReadInv == ASSUME IndInv, SysRead PROVE IndInv'
<1>1. PICK q, chars, n :
          /\ q = Held(keys) /\ chars = {i \in DOMAIN q : q[i].k = "char"}
          /\ n = IF chars = {} THEN Len(q) ELSE Min(chars)
  BY Zenon
<1>2. /\ keys' = Popped(keys, n) /\ keyQueue' = SubSeq(keyQueue, n + 1, Len(keyQueue))
      /\ UNCHANGED <<wire, held, mod, aux, packet, mice, mouseQueue, count>>
  BY <1>1, Zenon DEF SysRead, mouseVars
<1>3. n \in 0..Len(q)
  <2>1. q \in Seq(KeyEvents \cup {None})
    BY <1>1, HeldSeq, RingsAssumption, Zenon DEF IndInv, RingTypes
  <2>2. DOMAIN q = 1..Len(q) /\ Len(q) \in Nat
    BY <2>1
  <2>3. chars \subseteq 1..Len(q)
    BY <1>1, <2>2
  <2>4. CASE chars = {}
    BY <1>1, <2>2, <2>4
  <2>5. CASE chars # {}
    <3>1. Min(chars) \in chars
      <4>1. chars \subseteq Nat
        BY <2>2, <2>3
      <4> QED
        BY <2>5, <4>1, MinIn, Zenon
    <3> QED
      BY <1>1, <2>3, <2>5, <3>1
  <2> QED
    BY <2>4, <2>5
<1>4. n \in 0..Len(Held(keys))
  BY <1>1, <1>3
<1> QED
  BY <1>2, <1>4, TakeInv

\* Every step keeps the invariant.
LEMMA StepInv == IndInv /\ [Next]_vars => IndInv'
<1> SUFFICES ASSUME IndInv, [Next]_vars PROVE IndInv'
  OBVIOUS
<1>1. ASSUME NEW k \in Keys, PressKey(k) PROVE IndInv'
  BY <1>1, KeyboardInv
<1>2. ASSUME NEW k \in Modifiers, ReleaseKey(k) PROVE IndInv'
  BY <1>2, KeyboardInv DEF Keys
<1>3. ASSUME NEW left \in BOOLEAN, NEW bit3 \in BOOLEAN, SendPacket(left, bit3) PROVE IndInv'
  BY <1>3, SendPacketInv
<1>4. CASE KeyIrq
  BY <1>4, KeyIrqInv
<1>5. CASE MouseIrq
  BY <1>5, MouseIrqInv
<1>6. CASE HandleMouse
  BY <1>6, HandleMouseInv
<1>7. CASE FeedEditor
  BY <1>7, TakeKeyInv DEF FeedEditor
<1>8. CASE EditNote
  BY <1>8, TakeKeyInv DEF EditNote
<1>9. CASE SaveNote
  BY <1>9, TakeKeyInv DEF SaveNote
<1>10. CASE OpenNote
  BY <1>10, TakeKeyInv DEF OpenNote
<1>11. CASE SysRead
  BY <1>11, SysReadInv
<1>12. CASE UNCHANGED vars
  <2>1. UNCHANGED <<wire, held, mod, keys, keyQueue, aux, packet, mice, mouseQueue, count>>
    BY <1>12 DEF vars, kbdVars, mouseVars
  <2>2. WireOK' /\ AuxOK'
    BY <2>1, WireSame, AuxSame DEF IndInv
  <2> QED
    BY <2>1, <2>2 DEF IndInv, RingTypes, RingsAreQueues
<1> QED
  BY <1>1, <1>2, <1>3, <1>4, <1>5, <1>6, <1>7, <1>8, <1>9, <1>10, <1>11, <1>12 DEF Next

\* However large the two rings are, and however many keys and packets come,
\* each ring holds in order the events meant and not yet taken, and drops
\* only what comes when it is full (keyboard::irq, mouse::irq, EventQueue).
THEOREM RingsAreQueuesThm == Spec => []RingsAreQueues
<1>1. IndInv => RingsAreQueues
  BY DEF IndInv
<1> QED
  BY <1>1, InitInv, StepInv, PTL DEF Spec
=============================================================================
