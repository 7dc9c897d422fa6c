-------------------------------- MODULE Cpio --------------------------------
(***************************************************************************)
(* cpio.cpp: reading and writing an archive in four formats.  The file is  *)
(* a sequence of cells: of each member the magic number that starts it,    *)
(* the three numbers of its header that matter, in the order of the        *)
(* format, the characters of its name with a NUL and padding, and its      *)
(* content with padding.  Other fields of the header are left out.         *)
(***************************************************************************)
EXTENDS Archive

Formats == {"bin", "odc", "newc", "crc"}
C_TRAILER == "TRAILER!!!"

Magic(format) == [magic |-> format]
Number(digits) == [number |-> digits]

----------------------------------------------------------------------------
(* Numbers: octal in odc, hexadecimal in newc and crc, raw in bin. *)

Digits == <<"0", "1", "2", "3", "4", "5", "6", "7",
            "8", "9", "A", "B", "C", "D", "E", "F">>
ValueOf(c) == SelectInSeq(Digits, LAMBDA d : d = c) - 1
Base(format) == IF format = "odc" THEN 8 ELSE 16

\* to_hex() compares with > 10 and gives ten the character behind "9".
HexDigits == [Digits EXCEPT ![11] = ":"]

\* What the first n digits are worth, for each n, and what is left of a number
\* when n digits are taken off.
More(raw, base, c) == raw * base + ValueOf(c)
Values(digits, base) ==
  LET raw[n \in 0..Len(digits)] == IF n = 0 THEN 0 ELSE More(raw[n - 1], base, digits[n])
  IN raw
Shift(val, base) == val \div base
Shifts(val, base, width) ==
  LET left[n \in 0..width] == IF n = 0 THEN val ELSE Shift(left[n - 1], base)
  IN left

\* from_hex(), from_oct(): as far as there are digits.
FromDigits(digits, base) ==
  LET n == SelectInSeq(digits, LAMBDA c : ValueOf(c) \notin 0..(base - 1))
      good == IF n = 0 THEN digits ELSE SubSeq(digits, 1, n - 1)
  IN Values(good, base)[Len(good)]

\* to_hex(), to_oct(): from the last digit to the first.
ToDigits(val, base, width, digits) ==
  [i \in 1..width |-> digits[(Shifts(val, base, width)[width - i] % base) + 1]]

\* The layouts of the header: width of each number, order, size in bytes.
Width(format, field) ==
  IF format # "odc" THEN 8 ELSE IF field = "filesize" THEN 11 ELSE 6
Order(format) == IF format \in {"bin", "odc"} THEN <<"mode", "namesize", "filesize">>
                 ELSE <<"mode", "filesize", "namesize">>
HeaderSize == [bin |-> 26, odc |-> 76, newc |-> 110, crc |-> 110]

Encode(format, field, val, digits) ==
  IF format = "bin" THEN <<IF field = "filesize" THEN val ELSE val % 65536>>
  ELSE ToDigits(val, Base(format), Width(format, field), digits)

\* The bug: every number is taken for octal.
DecodeWrong(format, digits) ==
  IF digits = <<>> THEN 0 ELSE IF format = "bin" THEN digits[1]
  ELSE FromDigits(digits, 8)

Decode(format, digits) ==
  IF digits = <<>> THEN 0 ELSE IF format = "bin" THEN digits[1]
  ELSE FromDigits(digits, Base(format))

\* padding_size(): behind the name, and behind the content.
Unit(format) == CASE format = "bin" -> 2 [] format = "odc" -> 1 [] OTHER -> 4
Missing(format, n) == (Unit(format) - (n % Unit(format))) % Unit(format)
NamePadding(format, namesize) == Missing(format, HeaderSize[format] + namesize)

----------------------------------------------------------------------------
(* Reading. *)

\* read(): what the file does not have is memory nobody has written to; the
\* end of the file is never asked for.
Read(file, pos, n) ==
  [i \in 1..n |-> IF pos + i - 1 <= Len(file) THEN file[pos + i - 1] ELSE Junk]
Characters(cells) ==
  [i \in DOMAIN cells |-> IF "char" \in DOMAIN cells[i] THEN cells[i].char ELSE "junk"]

\* parse_bin(), parse_odc(), parse_crc(): the header, of which missing numbers
\* are zero as is what has no digits, then name and content.
Parse(file, pos) ==
  LET format == file[pos].magic
      field(f) ==
        LET at == pos + SelectInSeq(Order(format), LAMBDA g : g = f)
        IN Decode(format, IF at <= Len(file) /\ "number" \in DOMAIN file[at]
                          THEN file[at].number ELSE <<>>)
      start == pos + 4
      body == start + field("namesize") + NamePadding(format, field("namesize"))
      end == body + field("filesize")
  IN [name |-> Characters(Read(file, start, field("namesize"))),
      mode |-> field("mode"), body |-> Read(file, body, field("filesize")),
      next |-> end + Missing(format, field("filesize"))]

\* open(): member after member, up to the trailer or to something that is no
\* magic number.  It never fails.  Each member takes four cells, for its header,
\* or is the last.
Starts(file, pos) == pos <= Len(file) /\ "magic" \in DOMAIN file[pos]
Ends(member) == member.name # <<>> /\ member.name[1] = C_TRAILER
Beginning == [pos |-> 1, members |-> <<>>, okay |-> TRUE]
Put(st, member) == [st EXCEPT !.pos = member.next, !.members = Append(@, member)]
ReadMember(file, st) ==
  IF ~st.okay THEN st
  ELSE IF ~Starts(file, st.pos) \/ Ends(Parse(file, st.pos))
       THEN [st EXCEPT !.okay = FALSE]
  ELSE Put(st, Parse(file, st.pos))
Most(file) == Len(file) \div 4 + 1
Reading(file) ==
  LET st[n \in 0..Most(file)] == IF n = 0 THEN Beginning ELSE ReadMember(file, st[n - 1])
  IN st
Members(file) == Reading(file)[Most(file)].members

\* opencpio(): what .config has said of an earlier archive stays.
OpenCpio(site, file, behind) ==
  UpdateInfo([site EXCEPT !.rootfs = Input(Members(file))], behind)

\* _cpio_type, from the header read last.
TypeOf(file, type) ==
  IF file # <<>> /\ "magic" \in DOMAIN file[1] THEN file[1].magic ELSE type

----------------------------------------------------------------------------
(* Writing. *)

Zeros(n) == [i \in 1..n |-> Char(NUL)]

\* A member in a file; the padding follows from the digits as they are written.
Layout(format, name, mode, body, digits) ==
  LET number == [mode |-> mode, namesize |-> Len(name) + 1, filesize |-> Len(body)]
      written == [f \in DOMAIN number |-> Encode(format, f, number[f], digits)]
      size(f) == Decode(format, written[f])
  IN <<Magic(format)>>
     \o [i \in 1..3 |-> Number(written[Order(format)[i]])]
     \o [i \in DOMAIN name |-> Char(name[i])] \o Zeros(1)
     \o Zeros(NamePadding(format, size("namesize")))
     \o body \o Zeros(Missing(format, size("filesize")))

\* The bug: of the mode the permissions are written, but not the type.
DumpWrong(format, name, mode, body) ==
  Layout(IF format = "crc" THEN "newc" ELSE format, name, mode % 4096, body, HexDigits)

\* dump_bin(), dump_odc(), dump_crc(), the last without checksums.
Dump(format, name, mode, body) ==
  Layout(IF format = "crc" THEN "newc" ELSE format, name, mode, body, HexDigits)

\* update(): output() takes member after member out of the site, in one fixed
\* order; behind them all goes the trailer.
Output(format, rootfs, st) ==
  LET path == CHOOSE p \in st.left : TRUE
  IN IF st.left = {} THEN st
     ELSE [left |-> st.left \ {path},
           file |-> st.file \o Dump(format, path, rootfs[path].mode, rootfs[path].body)]
Writing(format, rootfs) ==
  LET st[n \in 0..Cardinality(DOMAIN rootfs)] ==
        IF n = 0 THEN [left |-> DOMAIN rootfs, file |-> <<>>]
        ELSE Output(format, rootfs, st[n - 1])
  IN st
Update(format, site) ==
  IF format \notin Formats THEN <<>>
  ELSE Writing(format, site.rootfs)[Cardinality(DOMAIN site.rootfs)].file
       \o Dump(format, <<C_TRAILER>>, 0, <<>>)

\* The archive that cpio -o makes of a sequence of members: the first n of them,
\* for each n, and all with the trailer.
Pack(format, file, m) == file \o Layout(format, m.name, m.mode, m.body, Digits)
Packed(format, members) ==
  LET file[n \in 0..Len(members)] ==
        IF n = 0 THEN <<>> ELSE Pack(format, file[n - 1], members[n])
  IN file
Made(format, members) ==
  Packed(format, members)[Len(members)] \o Layout(format, <<C_TRAILER>>, 0, <<>>, Digits)
=============================================================================
