----------------------------- MODULE DisplayNumbers -----------------------------
(***************************************************************************)
(* mcp_core/resilience.py: the numbers a marketplace displays, read.       *)
(* coerce_price() and coerce_count() read a text that names exactly one    *)
(* number and refuse any other; coerce_int() reads bare counts.            *)
(*                                                                         *)
(* A text is a sequence of symbols: runs of digits - of up to Two, of      *)
(* Three, or More, which is all the grouping rules tell apart - the spaces *)
(* and points that group them, and the marks that change what they mean.   *)
(* A number is the runs it is made of: where the text has the groups of    *)
(* its whole part, and its decimal tail.                                   *)
(***************************************************************************)
EXTENDS Integers, Sequences, FiniteSetsExt

CONSTANT MaxText  \* the longest text read

VARIABLE text

Two   == "two"
Three == "three"
More  == "more"
Runs  == {Two, Three, More}

Space == "space"   \* any of the spaces sites use
Point == "point"
Comma == "comma"
Minus == "minus"   \* or one of the dashes
Money == "money"   \* a currency sign
Kilo  == "kilo"    \* a thousand, a million: the digits are not the number

\* Words, each on its own.
Review == "review" \* "otzyv...": labels a count, and is among DECOY_MARKERS
Label  == "label"  \* "reviews", "otsenki": labels a count, and is not among them
Decoy  == "decoy"  \* another of the markers: an instalment, a bonus, a saving

\* _COUNT_LABEL_RE and DECOY_MARKERS name some words each, and share one.
Labels == {Review, Label}
Decoys == {Review, Decoy}

Marks   == {Minus, Money, Kilo} \cup Labels \cup Decoys
Grouped == {Space, Point, Comma}
Symbols == Grouped \cup Marks

None == [whole |-> {}, tail |-> {}]
Number(groups, tail) == [whole |-> groups, tail |-> tail]

-----------------------------------------------------------------------------
At(t, S)       == {i \in DOMAIN t : t[i] \in S}
Digits(t)      == At(t, Runs)
Only(t, S)     == \A i \in DOMAIN t : t[i] \in Runs \cup S

\* Fault: any groups are taken for one number.
AnyGroups(t, groups) == groups # {}

\* One run, or up to three digits and then threes.
OneNumber(t, groups) ==
  /\ groups # {}
  /\ \A i \in groups : i # Min(groups) => t[Min(groups)] # More /\ t[i] = Three

\* _parse_money_token(): a comma or a point and one or two digits at the end
\* are the tail; the groups before it have one kind of separator.
parse_money_token(t, first, last) ==
  LET tailed == first + 2 <= last /\ t[last] = Two /\ t[last - 1] \in {Point, Comma}
      front  == first..(IF tailed THEN last - 2 ELSE last)
      groups == front \cap Digits(t)
  IN  IF (\A i, j \in front \ groups : t[i] = t[j]) /\ OneNumber(t, groups)
      THEN Number(groups, IF tailed THEN {last} ELSE {}) ELSE None

\* The last symbol before i, and the first after it, that is no space.
Before(t, i) == LET S == {j \in 1..(i - 1) : t[j] # Space} IN IF S = {} THEN Space ELSE t[Max(S)]
After(t, i)  == LET S == {j \in (i + 1)..Len(t) : t[j] # Space} IN IF S = {} THEN Space ELSE t[Min(S)]

\* _parse_money_string(): the only number of a text that has no marker of another
\* sum, no minus before and no multiplier behind it.  Other words are passed over.
coerce_price(t) ==
  IF Digits(t) = {} \/ At(t, Decoys) # {} THEN None
  ELSE LET first == Min(Digits(t))
           last  == Max(Digits(t))
       IN  IF /\ Before(t, first) # Minus
              /\ \A i \in first..last : t[i] \in Runs \cup Grouped
              /\ After(t, last) # Kilo
           THEN parse_money_token(t, first, last) ELSE None

\* coerce_count(): the label is taken for a space; then only spaces may group.
coerce_count(t) ==
  IF Only(t, {Space} \cup Labels) /\ OneNumber(t, Digits(t)) THEN Number(Digits(t), {}) ELSE None

\* coerce_int(): every digit of a text without a word, a sign or a decimal.
coerce_int(t) ==
  LET signed  == \E i \in At(t, {Minus}) : \E j \in Digits(t) : i < j /\ \A k \in (i + 1)..(j - 1) : t[k] = Space
      decimal == \E i \in At(t, {Point, Comma}) : {i - 1, i + 1} \subseteq Digits(t)
  IN  IF Digits(t) = {} \/ signed \/ decimal \/ At(t, {Money, Kilo} \cup Labels \cup Decoys) # {}
      THEN None ELSE Number(Digits(t), {})

-----------------------------------------------------------------------------
\* A text grows by a symbol; two runs in a row would be one.
Write(x) ==
  /\ Len(text) < MaxText
  /\ x \in Runs /\ text # <<>> => text[Len(text)] \notin Runs
  /\ text' = Append(text, x)

Clear == text # <<>> /\ text' = <<>>

Init == text = <<>>
Next == Clear \/ \E x \in Runs \cup Symbols : Write(x)
Spec == Init /\ [][Next]_text
-----------------------------------------------------------------------------
(* Properties *)

(***************************************************************************)
(* What a shop writes for a number: groups with one separator between      *)
(* them, the first of up to three digits if there are more, the others of  *)
(* three; and the tail behind a point or a comma.                          *)
(***************************************************************************)
Whole(k, s) ==
  /\ {1, k} \subseteq Digits(text)
  /\ \A i \in 1..(k - 1) : (text[i] \in Runs) # (text[i + 1] \in Runs)
  /\ \A i \in 1..k : text[i] \in Runs \cup {s}
  /\ k > 1 => text[1] # More
  /\ \A i \in 2..k : text[i] \in Runs => text[i] = Three

Decimals(k) == k + 2 <= Len(text) /\ text[k + 1] \in {Point, Comma} /\ text[k + 2] = Two

End(k, sign) == \A i \in DOMAIN text : i > k => text[i] = sign \/ (i = k + 1 /\ text[i] = Space)

(***************************************************************************)
(* coerce_price(), coerce_count(): a number as shops write it is read as   *)
(* that number, with a currency or a label behind it too; whatever is read *)
(* has all the digits of the text, in the groups of one number; and a      *)
(* delta, a rounded sum, a range or a sum that DECOY_MARKERS names is      *)
(* never read as a price, nor anything but a plain count as a count.  (A   *)
(* count whose label is not a marker is read as a price: "24 reviews".)    *)
(***************************************************************************)
ReadAsWritten ==
  \A k \in DOMAIN text, s \in Grouped :
    Whole(k, s) =>
      LET groups == Digits(text) \cap 1..k
      IN  /\ End(k, Money) => coerce_price(text) = Number(groups, {})
          /\ Decimals(k) /\ End(k + 2, Money) => coerce_price(text) = Number(groups, {k + 2})
          /\ s = Space => \A word \in Labels : End(k, word) => coerce_count(text) = Number(groups, {})

SpelledOut(n) ==
  n # None =>
    /\ n.whole # {} /\ n.whole \cup n.tail = Digits(text)
    /\ \A i, j \in n.whole : i < j => text[i] # More /\ text[j] = Three
    /\ \A i \in n.tail : /\ text[i] = Two /\ text[i - 1] \in {Point, Comma}
                         /\ \A j \in Digits(text) : j <= i /\ (j \in n.whole <=> j # i)

NeverGuessed ==
  /\ SpelledOut(coerce_price(text)) /\ SpelledOut(coerce_count(text))
  /\ coerce_price(text) # None =>
       /\ At(text, Decoys) = {}
       /\ \A i \in DOMAIN text, j \in Digits(text) :
            /\ text[i] = Minus /\ i < j => \E k \in (i + 1)..(j - 1) : text[k] # Space
            /\ text[i] = Kilo /\ i > j  => \E k \in (j + 1)..(i - 1) : text[k] # Space
            /\ text[i] \in Marks => \A k \in Digits(text) : (i < j) = (i < k)
  /\ coerce_count(text) # None => coerce_int(text) \in {coerce_count(text), None}

NumbersRight == ReadAsWritten /\ NeverGuessed
=============================================================================
