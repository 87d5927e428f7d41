------------------------------ MODULE Keyboard ------------------------------
(***************************************************************************)
(* The PS/2 keyboard driver of kern/console.c: kbd_proc_data turns the     *)
(* scan codes that the keyboard controller hands over, one byte per poll,  *)
(* into characters, and keeps in the static variable "shift" which         *)
(* modifiers are down and whether an 0xE0 prefix has been read.            *)
(*                                                                         *)
(* The flag word "shift" is a set of flag names: |= is union, &= ~ is set  *)
(* difference and ^= is symmetric difference.  Scan codes and characters   *)
(* are the byte values of the source, and so are the character tables.     *)
(*                                                                         *)
(* The keyboard and its controller are hardware, modelled from how         *)
(* kbd_proc_data reads ports KBSTATP and KBDATAP: the user presses and     *)
(* releases keys, each event sends one or two bytes down the line, the     *)
(* controller offers them one at a time in its output buffer.              *)
(***************************************************************************)
EXTENDS Integers, Sequences

CONSTANTS
  Keys,        \* the physical keys, [e0 : BOOLEAN, code : 1..127]
  KbdLineSize  \* bound: bytes the keyboard holds back before it sends more

ASSUME KeysAssumption ==
  Keys \subseteq [e0 : BOOLEAN, code : (1..127) \ {96}]

ASSUME KbdLineSizeAssumption == KbdLineSize \in Nat \ {0, 1}

VARIABLES
  shift,     \* static uint32_t shift of kbd_proc_data, as a set of flags
  held,      \* hardware: the keys that are physically down
  kbd_line,  \* hardware: bytes sent by the keyboard, not yet in the controller
  kbd_out,   \* hardware: the controller's output buffer (KBS_DIB set iff full)
  reset,     \* hardware: port 0x92 was told to reset the machine
  seen       \* ghost: the keys that are down according to the bytes read so far

kbdVars == <<shift, held, kbd_line, kbd_out, reset, seen>>

(***************************************************************************)
(* The driver's tables.                                                    *)
(***************************************************************************)
NO       == 0
KEY_DEL  == 233                       \* 0xE9
E0       == 224                       \* 0xE0, the escape byte

SHIFT    == "SHIFT"
CTL      == "CTL"
ALT      == "ALT"
CAPSLOCK == "CAPSLOCK"
E0ESC    == "E0ESC"

Flags == {SHIFT, CTL, ALT, CAPSLOCK, "NUMLOCK", "SCROLLLOCK", E0ESC}

shiftcode(data) ==
  CASE data \in {29, 157} -> {CTL}    \* 0x1D and, after E0, 0x9D
    [] data \in {42, 54}  -> {SHIFT}  \* 0x2A and 0x36
    [] data \in {56, 184} -> {ALT}    \* 0x38 and, after E0, 0xB8
    [] OTHER              -> {}

togglecode(data) ==
  CASE data = 58 -> {CAPSLOCK}        \* 0x3A
    [] data = 69 -> {"NUMLOCK"}       \* 0x45
    [] data = 70 -> {"SCROLLLOCK"}    \* 0x46
    [] OTHER     -> {}

(* The extended codes that every table knows, 0xC8 (KEY_UP) to 0xD3        *)
(* (KEY_DEL).                                                              *)
padmap(data) ==
  CASE data = 200 -> 226   \* KEY_UP
    [] data = 201 -> 230   \* KEY_PGUP
    [] data = 203 -> 228   \* KEY_LF
    [] data = 205 -> 229   \* KEY_RT
    [] data = 207 -> 225   \* KEY_END
    [] data = 208 -> 227   \* KEY_DN
    [] data = 209 -> 231   \* KEY_PGDN
    [] data = 210 -> 232   \* KEY_INS
    [] data = 211 -> KEY_DEL
    [] OTHER      -> NO

keypad == <<0, 0, 0, 0, 0, 0, 0, 55, 56, 57, 45, 52, 53, 54, 43, 49,
            50, 51, 48, 46>>                                    \* 0x40..0x53

normalkeys ==
  <<0, 27, 49, 50, 51, 52, 53, 54, 55, 56, 57, 48, 45, 61, 8, 9,          \* 0x00
    113, 119, 101, 114, 116, 121, 117, 105, 111, 112, 91, 93, 10, 0, 97, 115,
    100, 102, 103, 104, 106, 107, 108, 59, 39, 96, 0, 92, 122, 120, 99, 118,
    98, 110, 109, 44, 46, 47, 0, 42, 0, 32, 0, 0, 0, 0, 0, 0>> \o keypad \* 0x30

shiftkeys ==
  <<0, 27, 33, 64, 35, 36, 37, 94, 38, 42, 40, 41, 95, 43, 8, 9,          \* 0x00
    81, 87, 69, 82, 84, 89, 85, 73, 79, 80, 123, 125, 10, 0, 65, 83,
    68, 70, 71, 72, 74, 75, 76, 58, 34, 126, 0, 124, 90, 88, 67, 86,
    66, 78, 77, 60, 62, 63, 0, 42, 0, 32, 0, 0, 0, 0, 0, 0>> \o keypad  \* 0x30

ctlkeys ==
  <<0, 0, 0, 0, 0, 0, 0, 0, 0, 0, 0, 0, 0, 0, 0, 0,                       \* 0x00
    17, 23, 5, 18, 20, 25, 21, 9, 15, 16, 0, 0, 13, 0, 1, 19,
    4, 6, 7, 8, 10, 11, 12, 0, 0, 0, 0, 28, 26, 24, 3, 22,
    2, 14, 13, 0, 0, 239>>                   \* 0x30; C('/') is 0xEF as a uint8_t

(* The designated entries of normalmap and shiftmap, with KEY_HOME and the *)
(* keypad's Enter and slash, and of ctlmap, where KEY_HOME sits at 0x97.   *)
homemap(data) ==
  CASE data = 199 -> 224
    [] data = 156 -> 10
    [] data = 181 -> 47
    [] OTHER      -> padmap(data)

ctlpadmap(data) ==
  CASE data = 151 -> 224
    [] data = 181 -> 239
    [] OTHER      -> padmap(data)

(* The initialised rows come first, the designated entries after them. *)
Entry(keys, data, designated) ==
  IF data < Len(keys) THEN keys[data + 1] ELSE designated

normalmap(data) == Entry(normalkeys, data, homemap(data))
shiftmap(data)  == Entry(shiftkeys, data, homemap(data))
ctlmap(data)    == Entry(ctlkeys, data, ctlpadmap(data))

charcode(flags, data) ==
  CASE CTL \in flags                      -> ctlmap(data)
    [] SHIFT \in flags /\ CTL \notin flags -> shiftmap(data)
    [] OTHER                              -> normalmap(data)

(***************************************************************************)
(* kbd_proc_data: read one byte, if there is one, and decode it.           *)
(* Decode(s, data) is the pair of the new flags and the result.            *)
(***************************************************************************)
NoByte  == [byte |-> -1]
NoData  == -1
SymDiff(S, T) == (S \ T) \cup (T \ S)

SwapCase(c) ==
  CASE c \in 97..122 -> c - 32
    [] c \in 65..90  -> c + 32
    [] OTHER         -> c

(* Mutants: a release forgets the modifier, or leaves the prefix behind. *)
ReleasedSticky(s, data) == s \ {E0ESC}

ReleasedKeepsPrefix(s, data) ==
  s \ shiftcode(IF E0ESC \in s THEN data ELSE data - 128)

Released(s, data) ==
  LET d == IF E0ESC \in s THEN data ELSE data - 128
  IN  s \ (shiftcode(d) \cup {E0ESC})

PressedCode(s, data) == IF E0ESC \in s THEN data + 128 ELSE data

Pressed(s, d) == SymDiff((s \ {E0ESC}) \cup shiftcode(d), togglecode(d))

PressedChar(s, d) ==
  LET c == charcode(Pressed(s, d), d)
  IN  IF CAPSLOCK \in Pressed(s, d) THEN SwapCase(c) ELSE c

Decode(s, data) ==
  IF data = E0          THEN <<s \cup {E0ESC}, 0>>
  ELSE IF data >= 128   THEN <<Released(s, data), 0>>
  ELSE LET d == PressedCode(s, data) IN <<Pressed(s, d), PressedChar(s, d)>>

(* Mutant: either modifier is enough. *)
RebootEither(s, c) == {CTL, ALT} \cap s # {} /\ c = KEY_DEL

RebootCombination(s, c) == {CTL, ALT} \subseteq s /\ c = KEY_DEL

(* What kbd_proc_data returns in the current state: -1 without data, 0     *)
(* without a finished character, otherwise the character.                  *)
kbd_ret == IF kbd_out = NoByte THEN NoData ELSE Decode(shift, kbd_out.byte)[2]

(* The keys that are down once one more byte has been read. *)
SeenAfter(b) ==
  CASE b.ev = "make"  -> seen \cup {b.key}
    [] b.ev = "break" -> seen \ {b.key}
    [] OTHER          -> seen

kbd_proc_data ==
  \/ /\ kbd_out = NoByte
     /\ UNCHANGED kbdVars
  \/ /\ kbd_out # NoByte
     /\ LET r == Decode(shift, kbd_out.byte)
        IN  /\ shift' = r[1]
            /\ reset' = (reset \/ RebootCombination(r[1], r[2]))
     /\ kbd_out' = NoByte
     /\ seen' = SeenAfter(kbd_out)
     /\ UNCHANGED <<held, kbd_line>>

(***************************************************************************)
(* The hardware.                                                           *)
(***************************************************************************)
Bytes(k, code, ev) ==
  LET last == [byte |-> code, key |-> k, ev |-> ev]
  IN  IF k.e0 THEN <<[byte |-> E0, key |-> k, ev |-> "prefix"], last>>
              ELSE <<last>>

Send(bytes) ==
  /\ Len(kbd_line) + Len(bytes) <= KbdLineSize
  /\ kbd_line' = kbd_line \o bytes

(* A key goes down, or repeats while it is held. *)
PressKey(k) ==
  /\ Send(Bytes(k, k.code, "make"))
  /\ held' = held \cup {k}
  /\ UNCHANGED <<shift, kbd_out, reset, seen>>

ReleaseKey(k) ==
  /\ k \in held /\ Send(Bytes(k, k.code + 128, "break"))
  /\ held' = held \ {k}
  /\ UNCHANGED <<shift, kbd_out, reset, seen>>

(* The controller takes the next byte and sets KBS_DIB. *)
KbdTransfer ==
  /\ kbd_line # <<>> /\ kbd_out = NoByte
  /\ kbd_out' = Head(kbd_line) /\ kbd_line' = Tail(kbd_line)
  /\ UNCHANGED <<shift, held, reset, seen>>

KbdHardware ==
  \/ \E k \in Keys : PressKey(k) \/ ReleaseKey(k)
  \/ KbdTransfer

(* The machine is reset: the BSS of the restarted kernel is zero and the   *)
(* controller's queue is empty, but the user's fingers have not moved.     *)
KbdAfterReset ==
  /\ shift' = {} /\ kbd_line' = <<>> /\ kbd_out' = NoByte
  /\ reset' = FALSE /\ seen' = {}
  /\ UNCHANGED held

MachineReset == reset /\ KbdAfterReset

KbdInit ==
  /\ shift = {} /\ held = {} /\ kbd_line = <<>>
  /\ kbd_out = NoByte /\ reset = FALSE /\ seen = {}

KbdNext == kbd_proc_data \/ KbdHardware \/ MachineReset

KbdSpec == KbdInit /\ [][KbdNext]_kbdVars

-----------------------------------------------------------------------------
(***************************************************************************)
(* Properties.                                                             *)
(***************************************************************************)
LineByte ==
  [byte : 0..255, key : Keys, ev : {"prefix", "make", "break"}]

KbdTypeOK ==
  /\ shift \in SUBSET Flags /\ held \in SUBSET Keys
  /\ kbd_line \in Seq(LineByte) /\ kbd_out \in LineByte \cup {NoByte}
  /\ reset \in BOOLEAN /\ seen \in SUBSET Keys

(* The index under which the tables know a key. *)
TableCode(k) == IF k.e0 THEN k.code + 128 ELSE k.code

KeysOf(m) == {k \in Keys : m \in shiftcode(TableCode(k))}

(* A modifier flag is never left set once the last of its keys has been    *)
(* released, whatever the order in which the left, right and extended      *)
(* keys of that modifier, and the fake shifts of the extended keys, came;  *)
(* where a modifier has a single key, the flag follows it exactly.         *)
NoStuckModifier ==
  \A m \in {SHIFT, CTL, ALT} :
    /\ m \in shift => seen \cap KeysOf(m) # {}
    /\ \A k \in seen : KeysOf(m) = {k} => m \in shift

(* The bytes the driver has still to read, oldest first. *)
Unread == (IF kbd_out = NoByte THEN <<>> ELSE <<kbd_out>>) \o kbd_line

(* The driver is inside a two-byte code exactly when the next byte is the  *)
(* second one of such a code: E0ESC never leaks into the following key,    *)
(* even when the loop of cons_intr ended between the two bytes.            *)
PrefixInStep ==
  /\ Unread # <<>> =>
       (E0ESC \in shift <=> /\ Head(Unread).ev # "prefix"
                            /\ Head(Unread).key.e0)
  /\ Unread = <<>> => E0ESC \notin shift

(* The reset port is written only for Ctrl+Alt with the Delete key of the  *)
(* extended pad: the keypad's Delete and partial chords never restart the  *)
(* machine.                                                                *)
DeleteKey == [e0 |-> TRUE, code |-> 83]

RebootOnlyOnChord ==
  [][~reset /\ reset' => /\ seen' \cap KeysOf(CTL) # {}
                         /\ seen' \cap KeysOf(ALT) # {}
                         /\ kbd_out.key = DeleteKey
                         /\ kbd_out.ev = "make"]_kbdVars
=============================================================================
