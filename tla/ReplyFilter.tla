----------------------------- MODULE ReplyFilter ----------------------------
(***************************************************************************)
(* The reply filter (internal/terminal/reply_filter.go).  A terminal that  *)
(* is asked something, or loses the focus, types the answer; such answers  *)
(* are not for the shell.  A message is a sequence of bytes; a byte is a   *)
(* string, and those that the filter does not tell apart share one.  "rgb" *)
(* stands for the text rgb: or rgba:.                                      *)
(***************************************************************************)
EXTENDS Integers, Sequences, FiniteSetsExt, SequencesExt

ESC == "ESC"

\* Bytes outside of 0x40..0x7e: these never end a control sequence.
NonFinal == {ESC, "BEL", "CR", "TAB", "NUL", "DEL", "HIGH", "SP", "0", "1", "2",
             "3", "4", "5", "6", "7", "8", "9", ";", "?", ">", "$"}

\* The second byte of a sequence that runs to BEL or to ESC \.
StringIntroducers == {"]", "P", "X", "^", "_"}

FirstOr(ends, otherwise) == IF ends = {} THEN otherwise ELSE Min(ends)

StringEnds(s) ==
    {i \in 3 .. Len(s) : s[i] = "BEL" \/ (i > 3 /\ s[i - 1] = ESC /\ s[i] = "\\")}

ControlEnds(s) == {i \in 3 .. Len(s) : s[i] \notin NonFinal}

\* The length of the sequence that s, which begins with ESC, begins with.
seqLen(s) ==
    CASE Len(s) < 2 -> Len(s)
      [] Len(s) >= 2 /\ s[2] \in StringIntroducers -> FirstOr(StringEnds(s), Len(s))
      [] Len(s) >= 2 /\ s[2] = "[" -> FirstOr(ControlEnds(s), Len(s))
      [] OTHER -> 2

\* Ordinary text runs to the next ESC.
textLen(s) == FirstOr({i \in 1 .. Len(s) : s[i] = ESC}, Len(s) + 1) - 1

Bytes == STRING

\* What comes first in s, and its length.
partLen(s) == IF s[1] = ESC THEN seqLen(s) ELSE textLen(s)
FirstPart(s) == SubSeq(s, 1, partLen(s))

\* One part after the other is cut off.
Splitting == [out : Seq(Seq(Bytes)), rest : Seq(Bytes)]

splitEscapes[w \in Splitting] ==
    IF w.rest = <<>> THEN w.out
    ELSE splitEscapes[[out |-> Append(w.out, FirstPart(w.rest)),
                       rest |-> SubSeq(w.rest, partLen(w.rest) + 1, Len(w.rest))]]

parts(b) == splitEscapes[[out |-> <<>>, rest |-> b]]

NumberBytes == {"0", "1", "2", "3", "4", "5", "6", "7", "8", "9", ";"}

isDigitsAndSemis(s) == s # <<>> /\ \A i \in DOMAIN s : s[i] \in NumberBytes

Focus(s) == s \in {<<ESC, "[", "I">>, <<ESC, "[", "O">>}

DeviceReport(body) ==
    body # <<>> /\ body[1] \in {"?", ">"} /\ IsSuffix(<<"c">>, body)

CursorReport(body) == IsSuffix(<<"R">>, body) /\ isDigitsAndSemis(Front(body))

ModeReport(body) == IsSuffix(<<"$", "y">>, body)

SizeReport(body) == IsPrefix(<<"8", ";">>, body) /\ IsSuffix(<<"t">>, body)

ColorReport(s) ==
    IsPrefix(<<ESC, "]">>, s) /\ \E i \in DOMAIN s : s[i] = "rgb"

isSingleReply(s) ==
    /\ Len(s) >= 2 /\ s[1] = ESC
    /\ \/ Focus(s)
       \/ /\ s[2] = "["
          /\ LET body == SubSeq(s, 3, Len(s))
             IN  \/ DeviceReport(body) \/ CursorReport(body)
                 \/ ModeReport(body) \/ SizeReport(body)
       \/ ColorReport(s)

\* Variant: one reply in a message is enough to hold it back.
AnyReply(b) == \E i \in DOMAIN parts(b) : isSingleReply(parts(b)[i])

IsTerminalReply(b) ==
    parts(b) # <<>> /\ \A i \in DOMAIN parts(b) : isSingleReply(parts(b)[i])

(***************************************************************************)
(* What reaches the filter: answers, as terminals give them, and input.    *)
(* One form is both: a browser sends f3 with a modifier as ESC[1;2R.       *)
(***************************************************************************)
Numbers(s, i, j) == \A n \in i .. j : s[n] \in NumberBytes

FocusChange(s, n) == n = 3 /\ s[n] \in {"I", "O"}
DeviceAttributes(s, n) ==
    n >= 4 /\ s[3] \in {"?", ">"} /\ Numbers(s, 4, n - 1) /\ s[n] = "c"
CursorPosition(s, n) == n >= 4 /\ Numbers(s, 3, n - 1) /\ s[n] = "R"
ModeState(s, n) ==
    /\ n >= 6 /\ s[3] = "?" /\ Numbers(s, 4, n - 2)
    /\ s[n - 1] = "$" /\ s[n] = "y"
WindowSize(s, n) ==
    n >= 6 /\ s[3] = "8" /\ s[4] = ";" /\ Numbers(s, 5, n - 1) /\ s[n] = "t"

\* The color is over at byte n.
Color(s, n) ==
    /\ \E i \in 3 .. n : s[i] = "rgb"
    /\ \A i \in 3 .. n : s[i] \notin {ESC, "BEL"}
    /\ \/ Len(s) = n + 1 /\ s[n + 1] = "BEL"
       \/ Len(s) = n + 2 /\ s[n + 1] = ESC /\ s[n + 2] = "\\"

IsAnswer(s) ==
    /\ Len(s) >= 3 /\ s[1] = ESC
    /\ \/ /\ s[2] = "["
          /\ \/ FocusChange(s, Len(s)) \/ DeviceAttributes(s, Len(s))
             \/ CursorPosition(s, Len(s)) \/ ModeState(s, Len(s))
             \/ WindowSize(s, Len(s))
       \/ s[2] = "]" /\ \E n \in 3 .. Len(s) : Color(s, n)

\* The second bytes of the sequences that are longer than two.
Introducers == StringIntroducers \cup {"["}

\* What a terminal may take for the start of more: esc, and alt with one of these.
Openers == {<<ESC>>} \cup {<<ESC, c>> : c \in Introducers}

\* One key, or text.
IsTyped(s) ==
    /\ s \in Seq(Bytes) /\ s # <<>>
    /\ \/ s[1] # ESC                                   \* text, control characters
       \/ s \in Openers
       \/ Len(s) >= 2 /\ s[2] \notin Introducers        \* alt and a character, f1
       \/ /\ Len(s) >= 3 /\ s[2] = "["                 \* other special keys
          /\ ControlEnds(s) = {Len(s)}
          /\ \/ s[Len(s)] \notin {"I", "O", "c", "R", "y", "t"}
             \/ CursorPosition(s, Len(s))               \* f3 with a modifier
=============================================================================
