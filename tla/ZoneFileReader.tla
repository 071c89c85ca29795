--------------------------- MODULE ZoneFileReader ---------------------------
(***************************************************************************)
(* dns.zonefile.Reader, as dns.zone.from_text() and from_file() use it:    *)
(* the lines of a zone file, and of those it includes, become records of a *)
(* transaction, which joins them to rdatasets.  A line is what its tokens  *)
(* say; a record is an owner, a TTL and a type, with the line it is from   *)
(* for its data.                                                           *)
(***************************************************************************)
EXTENDS Naturals, Sequences, FiniteSets, SequencesExt

CONSTANTS
    FileLines,     \* the lines a file may have, [kind, name, ttl, type]
    MaxLines,      \* bound: lines of all files
    ZoneName,      \* the labels of the zone's origin
    Minimum,       \* of an SOA record
    Unknown        \* None

\* A name is [absolute, labels]; << >> stands for no name, <<n>> for the name n.
\* A directive has what the reader requires of it, or is a malformed line.
ASSUME ReaderAssumption ==
    /\ MaxLines \in Nat /\ Minimum \in Nat /\ Unknown \notin Nat
    /\ \A l \in FileLines :
         /\ l.kind \in {"record", "$TTL", "$ORIGIN", "$INCLUDE", "$GENERATE", "end", "malformed"}
         /\ l.ttl \in Nat \cup {Unknown}
         /\ l.kind = "$TTL" => l.ttl # Unknown
         /\ l.kind \in {"$ORIGIN", "$GENERATE"} => l.name # << >>
         /\ l.kind = "$GENERATE" => l.type # "SOA"

Absolute(labels) == [absolute |-> TRUE, labels |-> labels]

VARIABLES
    reading,       \* "idle", "lines", "read", or why it failed
    zoneOrigin,    \* the origin, if the caller or a $ORIGIN has given one
    file,          \* the reader's state that an included file has for itself
    savedState,    \* that of the files that include it
    openFiles,     \* files opened by $INCLUDE
    rdatasets,     \* the records that the transaction has: [name, ttl, type, line]
    added,         \* those that it was given (not in the code)
    fileOf,        \* all lines so far (not in the code)
    callersOrigin  \* zoneOrigin at first (not in the code)

readerVars == <<reading, zoneOrigin, file, savedState, openFiles, rdatasets, added, fileOf, callersOrigin>>

StartOf(origin) == [origin |-> origin, lastName |-> origin, lastTtl |-> Unknown, defaultTtl |-> Unknown]

ReaderInit ==
    /\ reading = "idle"
    /\ zoneOrigin = << >> /\ callersOrigin = << >>
    /\ file = StartOf(<< >>) /\ savedState = << >>
    /\ openFiles = 0 /\ rdatasets = {} /\ added = {} /\ fileOf = << >>

\* from_text(): with an origin, or without.
FromText ==
    /\ reading = "idle" /\ reading' = "lines"
    /\ zoneOrigin' \in {<< >>, <<Absolute(ZoneName)>>}
    /\ callersOrigin' = zoneOrigin' /\ file' = StartOf(zoneOrigin')
    /\ UNCHANGED <<savedState, openFiles, rdatasets, added, fileOf>>

\* Name.from_text(): a relative name is completed, if there is an origin.
NameFrom(name, origin) ==
    IF name.absolute \/ origin = << >> THEN name
    ELSE [absolute |-> origin[1].absolute, labels |-> name.labels \o origin[1].labels]

\* Tokenizer.as_name(), whose choose_relativity() completes once more what a
\* relative origin leaves relative.
AsName(name, origin) == NameFrom(NameFrom(name, origin), origin)

IsInside(name, other) == name.absolute = other.absolute /\ IsSuffix(other.labels, name.labels)

FirstKnown(ttls) == IF \E i \in DOMAIN ttls : ttls[i] # Unknown
                    THEN ttls[CHOOSE i \in DOMAIN ttls : ttls[i] # Unknown /\ \A j \in 1..i - 1 : ttls[j] = Unknown]
                    ELSE Unknown

-----------------------------------------------------------------------------
(* One line. *)

ReadFails(why) == reading' = why /\ UNCHANGED <<zoneOrigin, file, savedState, openFiles, rdatasets, added>>

\* The rdataset of a name and a type; of these types it holds one record.
RdatasetOf(name, type) == {r \in rdatasets : r.name = name /\ r.type = type}
Singletons == {"SOA", "CNAME"}

\* _check_cname_and_other_data().
Compatible(name, type) ==
    \A r \in rdatasets : r.name = name => (r.type = "CNAME") = (type = "CNAME")

\* update_ttl().
LowestTtl(name, type, ttl) == Min({ttl} \cup {r.ttl : r \in RdatasetOf(name, type)})

\* txn.add(): the record joins the rdataset there is, or takes the place of the
\* one there; all have the lowest TTL.
AddRecords(names, ttl, type) ==
    LET new    == {[name |-> n, ttl |-> ttl, type |-> type, line |-> Len(fileOf')] : n \in names}
        others == {r \in rdatasets : r.name \notin names \/ r.type # type}
        joined == new \cup (IF type \in Singletons THEN {} ELSE rdatasets \ others)
    IN  /\ added' = added \cup new
        /\ rdatasets' = others \cup {[r EXCEPT !.ttl = LowestTtl(r.name, type, ttl)] : r \in joined}
        /\ UNCHANGED <<reading, zoneOrigin, savedState, openFiles>>

\* _rr_line(): a blank owner is the one before; a record out of the zone is
\* left out, and is the one before all the same.
RrLine(line) ==
    LET owner   == IF line.name = << >> THEN file.lastName ELSE <<AsName(line.name[1], file.origin)>>
        named   == [file EXCEPT !.lastName = owner]
        lasting == IF line.ttl = Unknown THEN named ELSE [named EXCEPT !.lastTtl = line.ttl]
        ofSoa   == line.type = "SOA" /\ file.defaultTtl = Unknown
        ttl     == FirstKnown(<<line.ttl, file.defaultTtl, lasting.lastTtl, IF ofSoa THEN Minimum ELSE Unknown>>)
    IN  IF file.origin = << >> THEN ReadFails("UnknownOrigin")
        ELSE IF owner = << >> \/ zoneOrigin = << >> THEN ReadFails("AttributeError")
        ELSE IF ~IsInside(owner[1], zoneOrigin[1])
        THEN file' = named /\ UNCHANGED <<reading, zoneOrigin, savedState, openFiles, rdatasets, added>>
        ELSE IF ttl = Unknown THEN ReadFails("SyntaxError")
        ELSE IF line.type = "SOA" /\ owner # zoneOrigin THEN ReadFails("ValueError")
        ELSE IF ~Compatible(owner[1], line.type) THEN ReadFails("CNAMEAndOtherData")
        ELSE /\ file' = IF ofSoa THEN [lasting EXCEPT !.defaultTtl = Minimum] ELSE lasting
             /\ AddRecords({owner[1]}, ttl, line.type)

\* The owner with the number of a $GENERATE.
GenerateOwner(name, number, origin) == NameFrom([name EXCEPT !.labels = <<number>> \o @], origin)

\* _generate_line(): two records, or those before the first that is out of the
\* zone; the last one tried is the one before the next line.
GenerateLine(line) ==
    LET owner(i) == GenerateOwner(line.name[1], i, file.origin)
        inside(i) == IsInside(owner(i), zoneOrigin[1])
        names    == {owner(i) : i \in {k \in {"1", "2"} : inside("1") /\ inside(k)}}
        lasting  == IF line.ttl = Unknown THEN file ELSE [file EXCEPT !.lastTtl = line.ttl]
        ttl      == FirstKnown(<<line.ttl, file.defaultTtl, file.lastTtl>>)
    IN  IF file.origin = << >> THEN ReadFails("UnknownOrigin")
        ELSE IF ttl = Unknown THEN ReadFails("SyntaxError")
        ELSE IF zoneOrigin = << >> THEN ReadFails("AttributeError")
        ELSE IF \E n \in names : ~Compatible(n, line.type) THEN ReadFails("CNAMEAndOtherData")
        ELSE /\ file' = [lasting EXCEPT !.lastName = <<owner(IF inside("1") THEN "2" ELSE "1")>>]
             /\ AddRecords(names, ttl, line.type)

\* $ORIGIN completes no relative name.
OriginLine(line) ==
    /\ file' = [file EXCEPT !.origin = line.name]
    /\ zoneOrigin' = IF zoneOrigin = << >> THEN line.name ELSE zoneOrigin
    /\ UNCHANGED <<reading, savedState, openFiles, rdatasets, added>>

\* $INCLUDE: the file has the owner and the TTLs of the one that includes it,
\* and its origin, or one of its own.
IncludeLine(line) ==
    /\ savedState' = Append(savedState, file)
    /\ file' = IF line.name = << >> THEN file ELSE [file EXCEPT !.origin = <<NameFrom(line.name[1], @)>>]
    /\ openFiles' = openFiles + 1
    /\ UNCHANGED <<reading, zoneOrigin, rdatasets, added>>

\* Faulty variant: of an included file's state, the TTLs stay.
Restored_KeepsTtls(state) == [state EXCEPT !.defaultTtl = file.defaultTtl, !.lastTtl = file.lastTtl]

Restored(state) == state

\* The end of a file, and of the first.
FileEnds ==
    IF savedState = << >> THEN reading' = "read" /\ UNCHANGED <<zoneOrigin, file, savedState, openFiles, rdatasets, added>>
    ELSE /\ file' = Restored(Last(savedState)) /\ savedState' = Front(savedState)
         /\ openFiles' = openFiles - 1
         /\ UNCHANGED <<reading, zoneOrigin, rdatasets, added>>

ReadLine ==
    /\ reading = "lines" /\ Len(fileOf) < MaxLines
    /\ \E line \in FileLines :
         /\ fileOf' = Append(fileOf, line)
         /\ CASE line.kind = "record"    -> RrLine(line)
              [] line.kind = "$GENERATE" -> GenerateLine(line)
              [] line.kind = "$ORIGIN"   -> OriginLine(line)
              [] line.kind = "$INCLUDE"  -> IncludeLine(line)
              [] line.kind = "$TTL"      ->
                   /\ file' = [file EXCEPT !.defaultTtl = line.ttl]
                   /\ UNCHANGED <<reading, zoneOrigin, savedState, openFiles, rdatasets, added>>
              [] line.kind = "end"       -> FileEnds
              [] line.kind = "malformed" -> ReadFails("SyntaxError")
    /\ UNCHANGED callersOrigin

ReaderNext == FromText \/ ReadLine
ReaderSpec == ReaderInit /\ [][ReaderNext]_readerVars

-----------------------------------------------------------------------------
(* Properties. *)

\* The depth of line i of the lines h, and the lines whose effect reaches it:
\* those of its file and, up to the $INCLUDE, of the files around it.
Depth(h, i) == Cardinality({j \in 1..i - 1 : h[j].kind = "$INCLUDE"})
               - Cardinality({j \in 1..i - 1 : h[j].kind = "end"})
Reaching(h, i) == {j \in 1..i - 1 : \A k \in j..i : Depth(h, k) >= Depth(h, j)}
Latest(S) == IF S = {} THEN 0 ELSE CHOOSE j \in S : \A k \in S : k <= j

\* The origin that holds in each line: of the last $ORIGIN, or the $INCLUDE
\* whose file has not ended.
Naming(h, i) == {j \in Reaching(h, i) :
    \/ h[j].kind = "$ORIGIN"
    \/ h[j].kind = "$INCLUDE" /\ h[j].name # << >> /\ \A k \in j + 1..i : Depth(h, k) > Depth(h, j)}
OriginFrom(h, first, origin, i) ==
    LET j == Latest(Naming(h, i))
    IN  CASE j = 0 -> first
          [] j # 0 /\ h[j].kind = "$ORIGIN" -> h[j].name
          [] OTHER -> <<NameFrom(h[j].name[1], origin[j])>>
Origins(h, first) ==
    LET origin[i \in 1..Len(h) + 1] == OriginFrom(h, first, origin, i) IN origin

\* The owners of line i, by the last line that names one.
Owned(h, i) == {j \in Reaching(h, i) : h[j].kind \in {"record", "$GENERATE"} /\ h[j].name # << >>}
OwnersAt(h, first, i) ==
    LET j == Latest(Owned(h, i + 1))
    IN  CASE j = 0 -> {first[1]}
          [] j # 0 /\ h[j].kind = "record" -> {AsName(h[j].name[1], Origins(h, first)[j])}
          [] OTHER -> {GenerateOwner(h[j].name[1], number, Origins(h, first)[j]) : number \in IF j = i THEN {"1", "2"} ELSE {"2"}}

\* The TTL of line i: its own, that of the last $TTL, the minimum of an SOA
\* record before it, or that of the last line that has one.  A record out of
\* the zone is not one of them, a $GENERATE out of the zone is.
LinesTaken(h, records) == {j \in 1..Len(h) : h[j].kind = "$GENERATE"} \cup {r.line : r \in records}
TtlDirectives(h, i) == {j \in Reaching(h, i) : h[j].kind = "$TTL"}
SoasTaken(h, records, i) == {j \in Reaching(h, i) \cap LinesTaken(h, records) : h[j].kind = "record" /\ h[j].type = "SOA"}
TtlsTaken(h, records, i) ==
    {j \in Reaching(h, i) \cap LinesTaken(h, records) : h[j].kind \in {"record", "$GENERATE"} /\ h[j].ttl # Unknown}
TtlAt(h, records, i) ==
    LET directive == Latest(TtlDirectives(h, i))
        record    == Latest(TtlsTaken(h, records, i))
    IN  CASE h[i].ttl # Unknown -> h[i].ttl
          [] h[i].ttl = Unknown /\ directive # 0 -> h[directive].ttl
          [] OTHER -> IF record = 0 \/ SoasTaken(h, records, i) # {} THEN Minimum ELSE h[record].ttl

\* Every record that the transaction is given has the owner and the TTL that the
\* lines which hold for it give it, however deep the files are nested: an
\* included file leaves nothing behind but its records.  Only records of the
\* zone are taken, an SOA at its origin; of what was given for a name and a type
\* the transaction has each record, or the last one, with the lowest TTL of all.
\* When all is read each file is closed.
ZoneReadRight ==
    /\ \A a \in added :
         /\ a.ttl = TtlAt(fileOf, added, a.line)
         /\ a.name \in OwnersAt(fileOf, callersOrigin, a.line)
         /\ IsInside(a.name, zoneOrigin[1])
         /\ a.type = "SOA" => a.name = zoneOrigin[1]
         /\ \E r \in RdatasetOf(a.name, a.type) : a.type \in Singletons \/ r.line = a.line
    /\ \A r \in rdatasets :
         LET given == {a \in added : a.name = r.name /\ a.type = r.type}
         IN  /\ r.line \in {a.line : a \in given} /\ r.ttl = Min({a.ttl : a \in given})
             /\ r.type \in Singletons => r.line = Max({a.line : a \in given})
    /\ reading = "lines" => openFiles = Len(savedState)
    /\ reading = "read" => openFiles = 0
=============================================================================
