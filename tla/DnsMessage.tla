----------------------------- MODULE DnsMessage -----------------------------
(***************************************************************************)
(* The wire form of a DNS message: dns.renderer fills it one question or   *)
(* RRset at a time, compresses names, takes back what does not fit and     *)
(* keeps room for the OPT and the TSIG record; dns.message reads it back,  *)
(* possibly cut short on the way.  A cell stands for the octets of one     *)
(* label, one pointer or the fixed part of a record; all names are         *)
(* absolute, and << >> is the root.                                        *)
(***************************************************************************)
EXTENDS Naturals, Sequences, FiniteSets, SequencesExt

CONSTANTS
    OwnerNames,    \* sequences of labels
    Rdatas,        \* [type |-> "A" or "NS", target |-> a name, << >> for A]
    MaxSize,       \* max_size of to_wire()
    MaxPointer,    \* 0x3FFF
    MaxLabels,     \* what a Name may hold
    MaxRRset       \* bound: rdatas of an RRset

HeaderSize == 1
OptCells == << <<"root">>, <<"fixed", "OPT", 1>>, <<"options">> >>
KeyName == <<"key">>
\* The MAC stands for what it is computed over.
TsigCells(mac) == << <<"fixed", "TSIG", 1>>, <<"mac", mac>> >>
TsigSize == 4

\* Message.to_wire() makes room for 512 octets at least, more than an empty
\* message needs.
ASSUME MessageAssumption ==
    /\ {MaxSize, MaxPointer, MaxLabels, MaxRRset} \subseteq Nat \ {0}
    /\ \A n \in OwnerNames \cup {rd.target : rd \in Rdatas} : n \in Seq(Range(n)) /\ Len(n) <= MaxLabels
    /\ Rdatas \subseteq [type : {"A"}, target : {<< >>}] \cup [type : {"NS"}, target : {rd.target : rd \in Rdatas}]
    /\ HeaderSize + Len(OptCells) + TsigSize <= MaxSize

VARIABLES
    rendering,     \* what to_wire() does next; "read" when the other end has read
    output,
    compress,      \* name -> offset
    section,
    counts,        \* section -> number of records
    reserved,
    withOpt, withTsig,
    accepted,      \* what add_...() has taken: <<section, name, type, rdata>> (not in the code)
    wholeWire,     \* the wire came whole
    outcome        \* of from_wire()

messageVars == <<rendering, output, compress, section, counts, reserved, withOpt, withTsig,
                 accepted, wholeWire, outcome>>

NoOutcome == [error |-> "none", rrsets |-> << >>, opt |-> FALSE, tsig |-> FALSE]
NoCounts == [s \in 1..4 |-> 0]

MessageInit ==
    /\ rendering = "idle"
    /\ output = << <<"header", NoCounts>> >>
    /\ compress = << >>
    /\ section = 1 /\ counts = NoCounts
    /\ withOpt = FALSE /\ withTsig = FALSE /\ reserved = 0
    /\ accepted = {} /\ wholeWire = TRUE /\ outcome = NoOutcome

\* to_wire() reserves room for what comes last.
Reserve ==
    /\ rendering = "idle" /\ rendering' = "sections"
    /\ withOpt' \in BOOLEAN /\ withTsig' \in BOOLEAN
    /\ reserved' = (IF withOpt' THEN Len(OptCells) ELSE 0) + (IF withTsig' THEN TsigSize ELSE 0)
    /\ reserved' <= MaxSize
    /\ UNCHANGED <<output, compress, section, counts, accepted, wholeWire, outcome>>

-----------------------------------------------------------------------------
(* Name.to_wire() and Rdataset.to_wire(): a buffer is a wire and its table. *)

Suffix(name, i) == SubSeq(name, i, Len(name))

\* The longest suffix that the table knows is a pointer; what comes before it
\* is spelled out and, where a pointer can reach it, entered.
NameToWire(buffer, name) ==
    LET start == Len(buffer.wire)
        known == {i \in 1..Len(name) : Suffix(name, i) \in DOMAIN buffer.table}
        upTo  == IF known = {} THEN Len(name) ELSE (CHOOSE i \in known : \A j \in known : i <= j) - 1
        new   == {i \in 1..upTo : start + i - 1 <= MaxPointer}
    IN  [wire  |-> buffer.wire \o [i \in 1..upTo |-> <<"label", name[i]>>]
                     \o (IF known = {} THEN << <<"root">> >>
                         ELSE << <<"pointer", buffer.table[Suffix(name, upTo + 1)]>> >>),
         table |-> [n \in DOMAIN buffer.table \cup {Suffix(name, i) : i \in new} |->
                       IF n \in DOMAIN buffer.table THEN buffer.table[n]
                       ELSE start + Len(name) - Len(n)]]

Put(buffer, cells) == [buffer EXCEPT !.wire = @ \o cells]

\* One record; the length is written when the rdata is there.
RecordToWire(buffer, name, rd) ==
    LET start == Put(NameToWire(buffer, name), << <<"fixed", rd.type, 0>> >>)
        body  == IF rd.type = "A" THEN Put(start, << <<"address">> >>) ELSE NameToWire(start, rd.target)
    IN  [body EXCEPT !.wire[Len(start.wire)][3] = Len(body.wire) - Len(start.wire)]

\* The buffer after each of them.
RdatasToWire(buffer, name, rds) ==
    LET after[i \in 0..Len(rds)] == IF i = 0 THEN buffer ELSE RecordToWire(after[i - 1], name, rds[i])
    IN  after
RdatasetToWire(buffer, name, rds) == RdatasToWire(buffer, name, rds)[Len(rds)]

-----------------------------------------------------------------------------
(* Renderer. *)

Buffer == [wire |-> output, table |-> compress]
RoomLeft == MaxSize - reserved

\* Faulty variant: the entry at the very place of the cut stays in the table.
RollbackTo_KeepsFirst(where, buffer) ==
    /\ output' = SubSeq(buffer.wire, 1, where)
    /\ compress' = [n \in {m \in DOMAIN buffer.table : buffer.table[m] <= where} |-> buffer.table[n]]

\* _rollback(): names at or behind the cut are forgotten.
RollbackTo(where, buffer) ==
    /\ output' = SubSeq(buffer.wire, 1, where)
    /\ compress' = [n \in {m \in DOMAIN buffer.table : buffer.table[m] < where} |-> buffer.table[n]]

\* _track_size(): TooBig leaves the message as it was.
TrackSize(buffer, limit) ==
    IF Len(buffer.wire) > limit THEN RollbackTo(Len(output), buffer)
    ELSE output' = buffer.wire /\ compress' = buffer.table
Fits(buffer) == Len(buffer.wire) <= RoomLeft

\* _set_section(): FormError for a section that is already over.
MayAddTo(s) == rendering = "sections" /\ section <= s

AddQuestion ==
    /\ MayAddTo(1) /\ section' = 1
    /\ \E name \in OwnerNames :
         LET buffer == Put(NameToWire(Buffer, name), << <<"fixed", "A", 0>> >>)
         IN  /\ TrackSize(buffer, RoomLeft)
             /\ counts' = [counts EXCEPT ![1] = IF Fits(buffer) THEN @ + 1 ELSE @]
             /\ accepted' = IF Fits(buffer) THEN accepted \cup {<<1, name, "A", << >>>>} ELSE accepted
    /\ UNCHANGED <<rendering, reserved, withOpt, withTsig, wholeWire, outcome>>

RRsets == {rds \in UNION {[1..n -> Rdatas] : n \in 1..MaxRRset} :
             IsInjective(rds) /\ \A i, j \in DOMAIN rds : rds[i].type = rds[j].type}

AddRRset ==
    /\ \E s \in 2..4, name \in OwnerNames, rds \in RRsets :
         LET buffer == RdatasetToWire(Buffer, name, rds)
         IN  /\ MayAddTo(s) /\ section' = s
             /\ TrackSize(buffer, RoomLeft)
             /\ counts' = [counts EXCEPT ![s] = IF Fits(buffer) THEN @ + Len(rds) ELSE @]
             /\ accepted' = IF Fits(buffer)
                            THEN accepted \cup {<<s, name, rd.type, rd.target>> : rd \in ToSet(rds)}
                            ELSE accepted
    /\ UNCHANGED <<rendering, reserved, withOpt, withTsig, wholeWire, outcome>>

\* Message.to_wire(), when its sections are rendered: the room is given back,
\* and the OPT record added.
AddOpt ==
    /\ rendering = "sections"
    /\ reserved' = 0
    /\ IF withOpt
       THEN LET buffer == Put(Buffer, OptCells)
            IN  /\ TrackSize(buffer, MaxSize)
                /\ rendering' = IF Len(buffer.wire) > MaxSize THEN "TooBig" ELSE "header"
                /\ section' = 4
                /\ counts' = [counts EXCEPT ![4] = IF Len(buffer.wire) > MaxSize THEN @ ELSE @ + 1]
       ELSE rendering' = "header" /\ UNCHANGED <<output, compress, section, counts>>
    /\ UNCHANGED <<withOpt, withTsig, accepted, wholeWire, outcome>>

\* write_header(), the signature over what is there, and the header again.
WriteHeader ==
    /\ rendering = "header"
    /\ LET headed == [output EXCEPT ![1] = <<"header", counts>>]
           signed == Put(NameToWire([wire |-> headed, table |-> compress], KeyName), TsigCells(headed))
       IN  CASE ~withTsig ->
                  /\ output' = headed /\ rendering' = "rendered"
                  /\ UNCHANGED <<compress, section, counts>>
             [] withTsig /\ Len(signed.wire) > MaxSize ->
                  /\ rendering' = "TooBig" /\ UNCHANGED <<output, compress, section, counts>>
             [] OTHER ->
                  /\ counts' = [counts EXCEPT ![4] = @ + 1] /\ section' = 4
                  /\ output' = [signed.wire EXCEPT ![1] = <<"header", counts'>>]
                  /\ compress' = signed.table
                  /\ rendering' = "rendered"
    /\ UNCHANGED <<reserved, withOpt, withTsig, accepted, wholeWire, outcome>>

-----------------------------------------------------------------------------
(* from_wire(). *)

\* One turn of from_wire_parser(): each pointer must point before the one that
\* was followed last; next is what comes behind the first of them.
LabelTurn(wire, r) ==
    LET cell   == wire[r.at + 1]
        behind == IF r.next = 0 THEN r.at + 1 ELSE r.next
    IN  CASE r.end # "none" -> r
          [] r.end = "none" /\ r.at >= Len(wire) -> [r EXCEPT !.end = "FormError"]
          [] OTHER ->
               CASE cell[1] = "label" -> [r EXCEPT !.at = @ + 1, !.labels = Append(@, cell[2])]
                 [] cell[1] = "pointer" /\ cell[2] < r.biggest ->
                      [r EXCEPT !.at = cell[2], !.biggest = cell[2], !.next = behind]
                 [] cell[1] = "root" -> [r EXCEPT !.end = "root", !.next = behind]
                 [] OTHER -> [r EXCEPT !.end = "FormError"]

\* What does not end in so many turns has too many labels, as each pointer
\* points further back.
NameTurns(at) == MaxLabels + at + 2
LabelTurns(wire, at) ==
    LET r[k \in 0..NameTurns(at)] ==
            IF k = 0 THEN [at |-> at, biggest |-> at, labels |-> << >>, next |-> 0, end |-> "none"]
            ELSE LabelTurn(wire, r[k - 1])
    IN  r

ReadName(wire, at) ==
    LET read == LabelTurns(wire, at)[NameTurns(at)]
    IN  [error  |-> IF read.end = "root" /\ Len(read.labels) <= MaxLabels THEN "none" ELSE "FormError",
         labels |-> read.labels, next |-> read.next]

\* find_rrset(create=True): into the RRset of that section, name and type.
FindRRset(rrsets, s, name, type) ==
    {i \in DOMAIN rrsets : rrsets[i].section = s /\ rrsets[i].name = name /\ rrsets[i].type = type}
NewRRset(s, name, type, rd) == [section |-> s, name |-> name, type |-> type, rdatas |-> {rd}]
IntoRRset(rrsets, s, name, type, rd) ==
    LET found == FindRRset(rrsets, s, name, type)
    IN  IF found = {} THEN Append(rrsets, NewRRset(s, name, type, rd))
        ELSE [i \in DOMAIN rrsets |-> IF i \in found THEN [rrsets[i] EXCEPT !.rdatas = @ \cup {rd}] ELSE rrsets[i]]

Fail(reader) == [reader EXCEPT !.error = "FormError"]

\* The TSIG record must be the last, and its MAC that of all before it, as
\* they were before it was counted.
ReadTsig(reader, wire, rrStart, s, isLast, name, mac) ==
    LET header == wire[1][2]
        before == <<wire[1]>> \o SubSeq(wire, 2, rrStart)
    IN  IF s = 4 /\ isLast /\ name = KeyName
           /\ [before EXCEPT ![1] = <<"header", [header EXCEPT ![4] = @ - 1]>>] = mac
        THEN [reader EXCEPT !.tsig = TRUE] ELSE Fail(reader)

\* One turn of _get_section(); the rdata must take just the octets it says.
ReadRecord(reader, wire, s, isLast) ==
    LET owner  == ReadName(wire, reader.at)
        fixed  == wire[owner.next + 1]
        start  == owner.next + 1
        stop   == start + fixed[3]
        target == ReadName(SubSeq(wire, 1, stop), start)
        done   == [reader EXCEPT !.at = stop]
    IN  IF owner.error # "none" \/ owner.next >= Len(wire) \/ stop > Len(wire) THEN Fail(reader)
        ELSE
          CASE fixed[2] = "OPT" -> IF s = 4 /\ ~reader.opt /\ owner.labels = << >>
                                 THEN [done EXCEPT !.opt = TRUE] ELSE Fail(reader)
          [] fixed[2] = "TSIG" -> ReadTsig(done, wire, reader.at, s, isLast, owner.labels, wire[start + 1][2])
          [] fixed[2] = "A" ->
               IF stop # start + 1 THEN Fail(reader)
               ELSE [done EXCEPT !.rrsets = IntoRRset(@, s, owner.labels, "A", << >>)]
          [] fixed[2] = "NS" ->
               IF target.error # "none" \/ target.next # stop THEN Fail(reader)
               ELSE [done EXCEPT !.rrsets = IntoRRset(@, s, owner.labels, "NS", target.labels)]

\* One turn of _get_question().
ReadQuestion(reader, wire) ==
    LET name == ReadName(wire, reader.at)
    IN  IF name.error # "none" \/ name.next >= Len(wire) THEN Fail(reader)
        ELSE [reader EXCEPT !.at = name.next + 1,
                            !.rrsets = Append(@, NewRRset(1, name.labels, "A", << >>))]

\* One turn of a section; an error ends them all.
SectionTurn(reader, wire, s, isLast) ==
    CASE reader.error # "none" -> reader
      [] reader.error = "none" /\ s = 1 -> ReadQuestion(reader, wire)
      [] OTHER -> ReadRecord(reader, wire, s, isLast)

\* The reader after each of them.
SectionTurns(reader, wire, s, count) ==
    LET r[i \in 0..count] == IF i = 0 THEN reader ELSE SectionTurn(r[i - 1], wire, s, i = count)
    IN  r
ReadSection(reader, wire, s) ==
    LET count == wire[1][2][s]
    IN  SectionTurns(reader, wire, s, count)[count]

\* _WireReader.read(): the sections as the header counts them, and no more.
SectionsRead(wire) ==
    LET start == [error |-> "none", rrsets |-> << >>, opt |-> FALSE, tsig |-> FALSE, at |-> HeaderSize]
        r[s \in 0..4] == IF s = 0 THEN start ELSE ReadSection(r[s - 1], wire, s)
    IN  r
FromWire(wire) ==
    LET end == SectionsRead(wire)[4]
    IN  IF wire = << >> THEN [NoOutcome EXCEPT !.error = "FormError"]
        ELSE [error |-> IF end.error = "none" /\ end.at # Len(wire) THEN "TrailingJunk" ELSE end.error,
              rrsets |-> end.rrsets, opt |-> end.opt, tsig |-> end.tsig]

Read ==
    /\ rendering = "rendered"
    /\ \E n \in 0..Len(output) :
         outcome' = FromWire(SubSeq(output, 1, n)) /\ wholeWire' = (n = Len(output))
    /\ rendering' = "read"
    /\ UNCHANGED <<output, compress, section, counts, reserved, withOpt, withTsig, accepted>>

MessageNext == Reserve \/ AddQuestion \/ AddRRset \/ AddOpt \/ WriteHeader \/ Read
MessageSpec == MessageInit /\ [][MessageNext]_messageVars

-----------------------------------------------------------------------------
(* Properties. *)

Records(rrsets) ==
    UNION {{<<rrsets[i].section, rrsets[i].name, rrsets[i].type, rd>> : rd \in rrsets[i].rdatas} : i \in DOMAIN rrsets}

\* Whatever has been added, refused as too big and compressed before it, the
\* other end reads exactly the records that were taken, each RRset whole; the
\* OPT and the TSIG record always find the room that was reserved for them;
\* and of a message that was cut short, however little is missing, no part is
\* taken for the message.
MessageSound ==
    /\ Len(output) <= MaxSize /\ rendering # "TooBig"
    /\ rendering = "read" =>
         IF wholeWire
         THEN /\ outcome.error = "none"
              /\ Records(outcome.rrsets) = accepted
              /\ outcome.opt = withOpt /\ outcome.tsig = withTsig
         ELSE outcome.error # "none"
=============================================================================
