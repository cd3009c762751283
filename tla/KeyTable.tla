------------------------------ MODULE KeyTable ------------------------------
(***************************************************************************)
(* What the console sends for a key (internal/tui/keys.go).  A key has a   *)
(* name, the modifiers held with it and the text it stands for.  The text  *)
(* of a character is the character, and its name too, but for the space;   *)
(* a byte is a string, as in ReplyFilter.                                  *)
(***************************************************************************)
EXTENDS Integers, Sequences

CSI(rest) == <<"ESC", "[">> \o rest

\* Keys without a modifier.
Plain ==
    [ enter |-> <<"CR">>, backspace |-> <<"DEL">>, tab |-> <<"TAB">>,
      esc |-> <<"ESC">>, space |-> <<"SP">>,
      up |-> CSI(<<"A">>), down |-> CSI(<<"B">>),
      right |-> CSI(<<"C">>), left |-> CSI(<<"D">>),
      home |-> CSI(<<"H">>), end |-> CSI(<<"F">>),
      pgup |-> CSI(<<"5", "~">>), pgdown |-> CSI(<<"6", "~">>),
      insert |-> CSI(<<"2", "~">>), delete |-> CSI(<<"3", "~">>),
      f1 |-> <<"ESC", "O", "P">>, f2 |-> <<"ESC", "O", "Q">>,
      f3 |-> <<"ESC", "O", "R">>, f4 |-> <<"ESC", "O", "S">>,
      f5 |-> CSI(<<"1", "5", "~">>), f6 |-> CSI(<<"1", "7", "~">>),
      f7 |-> CSI(<<"1", "8", "~">>), f8 |-> CSI(<<"1", "9", "~">>),
      f9 |-> CSI(<<"2", "0", "~">>), f10 |-> CSI(<<"2", "1", "~">>),
      f11 |-> CSI(<<"2", "3", "~">>), f12 |-> CSI(<<"2", "4", "~">>) ]

\* Variant: End is missing from the keys that take modifiers by their last letter.
FinalAsHome ==
    [ up |-> "A", pgup |-> "A", down |-> "B", pgdown |-> "B",
      right |-> "C", left |-> "D", end |-> "H", home |-> "H" ]

\* modifiedSpecial looks at the end of the name only: pgup ends like up.
Final ==
    [ up |-> "A", pgup |-> "A", down |-> "B", pgdown |-> "B",
      right |-> "C", left |-> "D", end |-> "F", home |-> "H" ]

xtermMod(mods) == 1 + (IF "shift" \in mods THEN 1 ELSE 0)
                    + (IF "alt" \in mods THEN 2 ELSE 0)
                    + (IF "ctrl" \in mods THEN 4 ELSE 0)

Digit == <<"1", "2", "3", "4", "5", "6", "7", "8">>

modifiedSpecial(k) == CSI(<<"1", ";", Digit[xtermMod(k.mods)], Final[k.name]>>)

\* Control characters; those that have a key of their own keep its name.  A
\* letter with ctrl goes by its small form.
LetterCodes ==
    [ a |-> "^A", b |-> "^B", c |-> "^C", d |-> "^D", e |-> "^E", f |-> "^F",
      g |-> "^G", h |-> "^H", i |-> "TAB", j |-> "^J", k |-> "^K", l |-> "^L",
      m |-> "CR", n |-> "^N", o |-> "^O", p |-> "^P", q |-> "^Q", r |-> "^R",
      s |-> "^S", t |-> "^T", u |-> "^U", v |-> "^V", w |-> "^W", x |-> "^X",
      y |-> "^Y", z |-> "^Z", space |-> "NUL" ]

Control ==
    [ c \in DOMAIN LetterCodes \cup {"[", "\\", "]", "^", "_"} |->
        IF c \in DOMAIN LetterCodes THEN LetterCodes[c]
        ELSE IF c = "[" THEN "ESC"
        ELSE IF c = "\\" THEN "^\\"
        ELSE IF c = "]" THEN "^]"
        ELSE IF c = "^" THEN "^^" ELSE "^_" ]

keyToBytes(k) ==
    CASE k.mods # {} /\ k.name \in DOMAIN Final -> modifiedSpecial(k)
      [] k.mods = {} /\ k.name \in DOMAIN Plain -> Plain[k.name]
      [] k.mods = {"shift"} /\ k.name = "tab" -> CSI(<<"Z">>)
      [] "ctrl" \in k.mods /\ k.name \in DOMAIN Control -> <<Control[k.name]>>
      [] OTHER -> IF "alt" \in k.mods /\ k.text # <<>> THEN <<"ESC">> \o k.text
                  ELSE k.text

(***************************************************************************)
(* The keys of Bubble Tea.  Special keys have no text, nor has a key that  *)
(* is held with ctrl; some terminals send none with alt either.            *)
(***************************************************************************)
SpecialKeys == DOMAIN Plain \ {"space"}

\* What names a byte here is not the name of a character.
ByteNames == {Control[c] : c \in DOMAIN Control} \cup {"DEL", "SP"}

TextOf(name) == IF name = "space" THEN <<"SP">> ELSE <<name>>

IsKey(k) ==
    /\ k.mods \subseteq {"shift", "alt", "ctrl"}
    /\ k.text \in {<<>>, TextOf(k.name)}
    /\ \/ k.name \in SpecialKeys /\ k.text = <<>>
       \/ /\ k.name \notin SpecialKeys \cup ByteNames
          /\ "ctrl" \in k.mods => k.text = <<>>
=============================================================================
