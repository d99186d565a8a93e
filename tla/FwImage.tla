------------------------------ MODULE FwImage ------------------------------
(***************************************************************************)
(* The file of a firmware image: fw_load() and fw_parse_hex() of           *)
(* src/fw_update.cpp, which read it line by line into the bytes that       *)
(* FwUpdate's update writes.  A file is any sequence of lines: what was    *)
(* copied in part, edited, or made for a larger device.                    *)
(*                                                                         *)
(* The sizes of the code's integers are parameters, so that they can be    *)
(* small; a record's address is below Linear as 0xffff is below 1 << 16,   *)
(* and no record starts beyond Word: 0xffff << 16 and 0xffff are below it. *)
(***************************************************************************)
EXTENDS Naturals, Sequences

CONSTANTS
  MaxSize,     \* FW_MAX_SIZE
  Word,        \* 2^32: uint32_t, and size_t on the ARM
  Linear,      \* 1 << 16: the unit of a linear base
  Segment,     \* 1 << 4: the unit of a segment base
  Addresses,   \* the addresses of records
  Bases,       \* what segment and linear records have as their value
  Contents,    \* what data records have, and binary files
  MaxLines     \* bound on the lines of a file

Erased == 255
Byte == 0 .. Erased

ASSUME FwImageAssumption ==
  /\ MaxSize \in Nat /\ Word \in Nat \ {0} /\ Linear \in Nat /\ Segment \in Nat
  /\ MaxSize < Word
  /\ Addresses \subseteq Nat /\ Bases \subseteq Nat
  /\ Contents \subseteq Seq(Byte)
  /\ MaxLines \in Nat

ASSUME PlacesFit ==
  \A a \in Addresses :
    a < Word /\ \A b \in Bases : b * Segment + a < Word /\ b * Linear + a < Word

\* A line without what its type does not use.  Bad is any line that is no
\* record: no colon, no hex digits, a wrong length or checksum, and a base of
\* more or less than two bytes.
Plain(kind) == [kind |-> kind, addr |-> 0, value |-> 0, data |-> <<>>]
Bad == Plain("bad")
Blank == Plain("blank")
EndOfFile == Plain("end")
StartAddress == Plain("start")
Unknown == Plain("unknown")
DataLine(a, d) == [Plain("data") EXCEPT !.addr = a, !.data = d]
BaseLine(kind, b) == [Plain(kind) EXCEPT !.value = b]
Lines ==
  {DataLine(a, d) : a \in Addresses, d \in Contents} \cup
  {BaseLine(kind, b) : kind \in {"segment", "linear"}, b \in Bases} \cup
  {Bad, Blank, EndOfFile, StartAddress, Unknown}

VARIABLES
  lines,   \* history: the lines read so far
  image,   \* the bytes
  base,
  end,     \* was there an end of file record?
  result,  \* "open", "hex" while it reads, "loaded" or "refused"
  beyond   \* history: a byte was written beyond the end of image

fileVars == <<lines, image, base, end, result, beyond>>

LoadInit ==
  /\ lines = <<>> /\ image = <<>> /\ base = 0 /\ end = FALSE
  /\ result = "open" /\ beyond = FALSE

-----------------------------------------------------------------------------

RefuseFile == result' = "refused" /\ UNCHANGED <<image, base, end, beyond>>

\* fw_load(): no such file, a binary one, or one that starts with a colon
NoFile ==
  /\ result = "open"
  /\ RefuseFile /\ UNCHANGED lines

LoadBinary(bytes) ==
  /\ result = "open"
  /\ IF bytes = <<>> \/ Len(bytes) > MaxSize
       THEN RefuseFile
       ELSE /\ result' = "loaded" /\ image' = bytes
            /\ UNCHANGED <<base, end, beyond>>
  /\ UNCHANGED lines

LoadHex ==
  /\ result = "open"
  /\ result' = "hex"
  /\ UNCHANGED <<lines, image, base, end, beyond>>

-----------------------------------------------------------------------------
(***************************************************************************)
(* fw_parse_hex(), a line                                                  *)
(***************************************************************************)

Wrapped(n) == IF n < Word THEN n ELSE n % Word
At(l) == Wrapped(base + l.addr)

EndTooLarge(at, len) == Wrapped(at + len) > MaxSize                 \* mutant
TooLarge(at, len) == at > MaxSize \/ len > MaxSize - at

\* image.resize(): grown with what an erased flash reads as
GrownTo(n) == IF Len(image) < n THEN n ELSE Len(image)
Cut(n) == n                                                         \* mutant
Size(n) == GrownTo(n)

\* the bytes d at a place: what they replace, and what is filled up
Placed(at, d, size) ==
  [n \in 1 .. size |-> IF at < n /\ n <= at + Len(d) THEN d[n - at]
                       ELSE IF n <= Len(image) THEN image[n] ELSE Erased]

DataRecord(l) ==
  LET at == At(l)
      size == Size(Wrapped(at + Len(l.data)))
  IN  IF TooLarge(at, Len(l.data)) THEN RefuseFile
      ELSE /\ image' = Placed(at, l.data, size)
           /\ beyond' = (beyond \/ at + Len(l.data) > size)
           /\ UNCHANGED <<base, end, result>>

SetBase(b) == base' = b /\ UNCHANGED <<image, end, result, beyond>>

\* after the end of file record only blank lines may come
AfterEnd == end

Record(l) ==
  CASE l.kind = "data" -> DataRecord(l)
    [] l.kind = "end" -> end' = TRUE /\ UNCHANGED <<image, base, result, beyond>>
    [] l.kind = "segment" -> SetBase(l.value * Segment)
    [] l.kind = "linear" -> SetBase(l.value * Linear)
    [] l.kind = "start" -> UNCHANGED <<image, base, end, result, beyond>>
    [] OTHER -> RefuseFile

Line ==
  /\ result = "hex" /\ Len(lines) < MaxLines
  /\ \E l \in Lines :
       /\ lines = <<>> => l # Blank
       /\ lines' = Append(lines, l)
       /\ IF l = Blank THEN UNCHANGED <<image, base, end, result, beyond>>
          ELSE IF AfterEnd THEN RefuseFile
          ELSE Record(l)

\* the end of the file
Complete == end

Close ==
  /\ result = "hex"
  /\ IF Complete /\ image # <<>>
       THEN result' = "loaded" /\ UNCHANGED <<image, base, end, beyond>>
       ELSE RefuseFile
  /\ UNCHANGED lines

LoadNext == NoFile \/ (\E d \in Contents : LoadBinary(d)) \/ LoadHex \/ Line \/ Close

LoadSpec == LoadInit /\ [][LoadNext]_fileVars

-----------------------------------------------------------------------------
(***************************************************************************)
(* Properties                                                              *)
(***************************************************************************)

ImageTypeOK ==
  /\ lines \in Seq(Lines)
  /\ image \in Seq(Byte)
  /\ base \in Nat
  /\ end \in BOOLEAN /\ beyond \in BOOLEAN
  /\ result \in {"open", "hex", "loaded", "refused"}

(***************************************************************************)
(* "not at + len: that wraps with a 32 bit size_t (ARM) for an address     *)
(* near 4 GB and would pass" (fw_parse_hex()): whatever the file says, no  *)
(* byte is written beyond the image, and that stays within its limit.      *)
(***************************************************************************)
NothingBeyond == ~beyond /\ Len(image) <= MaxSize

(***************************************************************************)
(* What a file means: where its records' bytes belong, by the base before  *)
(* each, and which of them a place has                                     *)
(***************************************************************************)
IsBase(n) == lines[n].kind \in {"segment", "linear"}
BaseAt(n) ==
  IF \A m \in 1 .. n : ~IsBase(m) THEN 0
  ELSE LET b == CHOOSE m \in 1 .. n : IsBase(m) /\ \A x \in m + 1 .. n : ~IsBase(x)
       IN  lines[b].value * (IF lines[b].kind = "linear" THEN Linear ELSE Segment)
First(n) == BaseAt(n) + lines[n].addr
Last(n) == First(n) + Len(lines[n].data)
DataLines == {n \in DOMAIN lines : lines[n].kind = "data"}
Covers(n, p) == First(n) < p /\ p <= Last(n)
Meant(p) ==
  IF \A n \in DataLines : ~Covers(n, p) THEN Erased
  ELSE LET last == CHOOSE n \in DataLines :
                     Covers(n, p) /\ \A m \in DataLines : Covers(m, p) => m <= n
       IN  lines[last].data[p - First(last)]

(***************************************************************************)
(* A file that is loaded is whole - it has an end of file record and       *)
(* nothing but blank lines after it, no line of it was passed over - and   *)
(* the image is the one it means: every byte where its record and the base *)
(* before it say, the gaps erased, and its length the end of the last.     *)
(***************************************************************************)
ImageIsTheFile ==
  result = "loaded" /\ lines # <<>> =>
    /\ \A n \in DOMAIN lines : lines[n].kind \notin {"bad", "unknown"}
    /\ \E e \in DOMAIN lines :
         lines[e] = EndOfFile /\ \A n \in e + 1 .. Len(lines) : lines[n] = Blank
    /\ \A n \in DataLines : Last(n) <= Len(image)
    /\ \E n \in DataLines : Last(n) = Len(image)
    /\ \A p \in DOMAIN image : image[p] = Meant(p)
=============================================================================
