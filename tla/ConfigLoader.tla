---------------------------- MODULE ConfigLoader ----------------------------
(***************************************************************************)
(* How the proxy reads microDNS.conf and the snapshot of the nameservers   *)
(* (dns/src/config.cpp).  The set-up scripts read the first of the two     *)
(* files as well, but with the shell.  A line is a sequence of tokens:     *)
(* words, "=", blanks and quotation marks.                                 *)
(***************************************************************************)
EXTENDS Naturals, Sequences, FiniteSets, SequencesExt

CONSTANTS Quads,      \* words like d.d.d.d, one to three digits each
          Addresses   \* those of them that inet_pton accepts

ASSUME AddressAssumption == Addresses \subseteq Quads

Quote == "\""

EqualSigns(line) == {i \in DOMAIN line : line[i] = "="}
Key(line) == SubSeq(line, 1, Min(EqualSigns(line)) - 1)
Value(line) == SubSeq(line, Min(EqualSigns(line)) + 1, Len(line))

(* The lines that are not skipped, and those of them with one key.         *)
Settings(lines) == {i \in DOMAIN lines : EqualSigns(lines[i]) # {}}
Keys(lines) == {Key(lines[i]) : i \in Settings(lines)}
LinesOf(lines, key) == {i \in Settings(lines) : Key(lines[i]) = key}

(* Mutant of Unquoted: the closing mark stays.                             *)
HalfUnquoted(val) == IF val # <<>> /\ Head(val) = Quote THEN Tail(val) ELSE val

(* Of a value that is one single mark the loader's behaviour is undefined; *)
(* the scripts do not run with such a file.                                *)
Unquoted(val) ==
    IF val # <<>> /\ Head(val) = Quote /\ Last(val) = Quote THEN SubSeq(val, 2, Len(val) - 1) ELSE val

(* ConfigLoader::ConfigLoader: the first line of a key counts, because     *)
(* emplace leaves what is there.                                           *)
Load(lines) == [key \in Keys(lines) |-> Unquoted(Value(lines[Min(LinesOf(lines, key))]))]

(* What the shell makes of the file: the last line of a key counts, both   *)
(* kinds of quotation marks vanish.                                        *)
Marks(val) == {i \in DOMAIN val : val[i] \in {Quote, "'"}}
WithoutMarks(val) ==
    LET kept == DOMAIN val \ Marks(val)
        Nth(k) == CHOOSE i \in kept : Cardinality({j \in kept : j <= i}) = k
    IN [k \in 1 .. Cardinality(kept) |-> val[Nth(k)]]
Source(lines) == [key \in Keys(lines) |-> WithoutMarks(Value(lines[Max(LinesOf(lines, key))]))]

(* ConfigLoader::loadNameservers, ipMatcher.                               *)
IsNameserver(line) ==
    /\ Len(line) >= 3
    /\ line[1] = "nameserver" /\ line[2] = " " /\ line[3] \in Quads
    /\ \A i \in 4 .. Len(line) : line[i] = " "

(* Their order is no matter here.                                          *)
Nameservers(lines) == {line[3] : line \in {l \in ToSet(lines) : IsNameserver(l)}} \cap Addresses
=============================================================================
