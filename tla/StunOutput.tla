------------------------------ MODULE StunOutput ------------------------------
(***************************************************************************)
(* What Utils reads from the output of stunclient.exe.  A text is a        *)
(* sequence of characters, in which "M" stands for "Mapped address: ".     *)
(***************************************************************************)
EXTENDS Naturals, Sequences, SequencesExt, FiniteSetsExt

CONSTANTS
    Digit, Newline, Space,
    DigitValue,  \* the number a digit stands for
    StoiMax,     \* the largest int
    PortWidth    \* how many values a uint16_t has

ASSUME StunAssumption ==
    /\ Digit \cap {":", ".", "M", Newline, Space} = {}
    /\ DigitValue \in [Digit -> 0 .. 9]
    /\ StoiMax \in Nat
    /\ PortWidth \in Nat \ {0}

Missing == <<1, 0>>   \* PortTranslation(1, 0)
Undefined == <<>>     \* after an access outside an array or a string

LeadingDigits(s) ==
    SubSeq(s, 1, Max({d \in 0 .. Len(s) : \A k \in 1 .. d : s[k] \in Digit}))
DigitsAfter(s, k) == LeadingDigits(SubSeq(s, k + 1, Len(s)))
Number(digits) == FoldLeft(LAMBDA n, d : 10 * n + DigitValue[d], 0, digits)

(* std::stoi reads the digits behind leading blanks and a sign; it throws when
   there are none, or when they make no int. *)
StartsNumber(s, k) ==
    \E d \in k .. Len(s) :
        /\ s[d] \in Digit
        /\ \A b \in k .. d - 1 : s[b] \in {Newline, Space} \/ (b = d - 1 /\ s[b] \in {"+", "-"})
        /\ Number(DigitsAfter(s, d - 1)) <= StoiMax + (IF d > k /\ s[d - 1] = "-" THEN 1 ELSE 0)

(* PortTranslation(std::stoi(local), std::stoi(public)): an out_of_range of stoi
   is caught, and the parameters take an int modulo 2^16. *)
PortTranslation(local, public) ==
    IF Number(local) <= StoiMax /\ Number(public) <= StoiMax
    THEN <<Number(local) % PortWidth, Number(public) % PortWidth>>
    ELSE Missing

(* remove and erase: the text without its blanks. *)
WithoutSpaces(text) ==
    LET kept[n \in 0 .. Len(text)] ==
            IF n = 0 THEN <<>>
            ELSE IF text[n] = Space THEN kept[n - 1] ELSE Append(kept[n - 1], text[n])
    IN  kept[Len(text)]

(* A colon between two digits: what follows is a port. *)
IsSeparator(text, k) ==
    text[k] = ":" /\ text[k - 1] \in Digit /\ text[k + 1] \in Digit

(* Mutant: the loop stops one character before the end. *)
LastScannedShort(text) == Max({1, Len(text) - 2})

(* i < size() - 1, counted from 1; nothing is scanned at the first character. *)
LastScanned(text) == Max({1, Len(text) - 1})

(* An iteration of getPortTranslation's loop, and the loop.  Ports has two
   elements in the code; here it has room for every find. *)
ScanCharacter(text, s, k) ==
    LET found == (IsSeparator(text, k) \/ s.found) /\ text[k + 1] # Newline
        finds == s.finds + (IF IsSeparator(text, k) THEN 1 ELSE 0)
    IN  [found |-> found, finds |-> finds,
         Ports |-> IF found THEN [s.Ports EXCEPT ![finds] = Append(@, text[k + 1])]
                   ELSE s.Ports]
Scan(text) ==
    LET scan[k \in 1 .. LastScanned(text)] ==
            IF k = 1
            THEN [found |-> FALSE, finds |-> 0, Ports |-> [f \in 1 .. Len(text) |-> <<>>]]
            ELSE ScanCharacter(text, scan[k - 1], k)
    IN  scan[LastScanned(text)]

(* With an empty text size() - 1 wraps around and the loop leaves the string;
   a third port leaves the array.  Too few ports make stoi throw, which is caught. *)
getPortTranslation(stunReturn) ==
    LET text == WithoutSpaces(stunReturn)
        end == Scan(text)
    IN  IF text = <<>> \/ end.finds > 2 THEN Undefined
        ELSE IF end.finds < 2 THEN Missing
        ELSE PortTranslation(LeadingDigits(end.Ports[1]), LeadingDigits(end.Ports[2]))

(* Mutant: the index of the marker, without its length. *)
AddressStartsAtMarker(text) ==
    IF \E k \in DOMAIN text : text[k] = "M"
    THEN {Min({k \in DOMAIN text : text[k] = "M"})}
    ELSE 1 .. Len(text) + 1

(* find returns npos when the marker is not there, and npos + 16 as an unsigned
   int is 15: a character somewhere in the text, or past its end. *)
AddressStarts(text) ==
    IF \E k \in DOMAIN text : text[k] = "M"
    THEN {Min({k \in DOMAIN text : text[k] = "M"}) + 1}
    ELSE 1 .. Len(text) + 1

(* getPublicIPAddress: the part up to the first colon, split at the dots.  The
   address itself goes to a copy of the pointer and is lost. *)
PublicIPAddress(text, start) ==
    LET colons == {k \in start .. Len(text) : text[k] = ":"}
        ip == SubSeq(text, start, Min(colons \cup {Len(text) + 1}) - 1)
        dots == {k \in DOMAIN ip : ip[k] = "."}
    IN  IF \E k \in DOMAIN ip \ dots : Cardinality({d \in dots : d < k}) > 3 THEN "undefined"
        ELSE IF /\ Cardinality(dots) >= 3
                /\ \A d \in {0} \cup dots :
                    Cardinality({e \in dots : e < d}) <= 2 => StartsNumber(ip, d + 1)
        THEN "read" ELSE "threw"
getPublicIPAddress(text) == {PublicIPAddress(text, start) : start \in AddressStarts(text)}

-----------------------------------------------------------------------------
(* What the readers should find, said of the whole text: a port is the number
   that follows a separator, as 16 bits hold it, and it stands for a port as long
   as it is an int. *)
Separators(text) == {k \in 2 .. Len(text) - 1 : IsSeparator(text, k)}
ExpectedPorts(stunReturn) ==
    LET text == WithoutSpaces(stunReturn)
        separators == Separators(text)
    IN  IF Cardinality(separators) = 2
        THEN PortTranslation(DigitsAfter(text, Min(separators)),
                             DigitsAfter(text, Max(separators)))
        ELSE Missing
HasAtMostTwoPorts(stunReturn) ==
    LET text == WithoutSpaces(stunReturn)
    IN  text # <<>> /\ Cardinality(Separators(text)) <= 2

(* Behind the first marker stand four ints with dots between them, and a colon. *)
HasMappedAddress(text) ==
    \E m \in DOMAIN text : \E c \in m + 1 .. Len(text) :
        LET ip == SubSeq(text, m + 1, c - 1)
            dots == {k \in DOMAIN ip : ip[k] = "."}
        IN  /\ text[m] = "M" /\ \A k \in 1 .. m - 1 : text[k] # "M"
            /\ text[c] = ":"
            /\ \A k \in DOMAIN ip \ dots : ip[k] \in Digit
            /\ Cardinality(dots) = 3
            /\ \A k \in {0} \cup dots :
                k + 1 \in DOMAIN ip \ dots /\ Number(DigitsAfter(ip, k)) <= StoiMax
=============================================================================
