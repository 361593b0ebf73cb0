------------------------------- MODULE Records -------------------------------
(***************************************************************************)
(* The text of a mapping page: <key>,<cid>; entries as Store writes them,  *)
(* and as parseMappings reads them back.  A text is a sequence of tokens:  *)
(* a key in base64, a CID, the two delimiters, or anything else.           *)
(***************************************************************************)
EXTENDS Naturals, Sequences

CONSTANTS
    KeyText,  \* texts that decode to a key of 48 bytes
    CidText,  \* texts of CIDs
    Comma, Semicolon,
    Flood,    \* a text without delimiter that is larger than the buffer
    Junk      \* any other texts without delimiter

ASSUME DelimiterAssumption ==
    /\ Comma # Semicolon
    /\ {Comma, Semicolon} \cap (KeyText \cup CidText \cup Junk \cup {Flood}) = {}

Token == KeyText \cup CidText \cup Junk \cup {Comma, Semicolon, Flood}

(* What Store appends to a page.                                           *)
Format(key, cid) == <<key, Comma, cid, Semicolon>>

(* Mutant: the text behind the last delimiter is a record too.             *)
EndsAll(text) == {i \in DOMAIN text : text[i] = Semicolon} \cup {Len(text) + 1}

(* The positions of the delimiters; what is behind the last one is dropped.*)
Ends(text) == {i \in DOMAIN text : text[i] = Semicolon}

(* Where each ReadSlice begins, and the delimiter at which it ends.        *)
Slices(text) ==
    {s \in (1 .. Len(text) + 1) \X Ends(text) :
        /\ s[1] <= s[2]
        /\ s[1] = 1 \/ text[s[1] - 1] = Semicolon
        /\ \A i \in s[1] .. s[2] - 1 : text[i] # Semicolon}

Cut(text, s) == SubSeq(text, s[1], s[2] - 1)

(* A key, one comma, and a CID that is not empty.                          *)
IsMapping(slice) ==
    /\ Len(slice) >= 3
    /\ slice[1] \in KeyText
    /\ {i \in DOMAIN slice : slice[i] = Comma} = {2}

(* A slice that does not fit the buffer fails the page.                    *)
ParseFails(text) == \E i \in DOMAIN text : text[i] = Flood

(* All other slices are read, and those that are no mapping are skipped.   *)
parseMappings(text) == {s \in Slices(text) : IsMapping(Cut(text, s))}

(* The message of an entry is fetched with the text behind the comma.      *)
CidOf(slice) == SubSeq(slice, 3, Len(slice))

-----------------------------------------------------------------------------
(* Is what stands behind the comma of an entry always one whole CID?       *)
CidsWhole(text) ==
    \A s \in parseMappings(text) : \E cid \in CidText : CidOf(Cut(text, s)) = <<cid>>

(* Where a record stands in the text just as Store has written it.         *)
IntactAt(text) ==
    {i \in DOMAIN text :
        /\ i + 3 \in DOMAIN text
        /\ i = 1 \/ text[i - 1] = Semicolon
        /\ \E key \in KeyText, cid \in CidText :
              SubSeq(text, i, i + 3) = Format(key, cid)}
=============================================================================
