----------------------------- MODULE MCReadPath -----------------------------
(***************************************************************************)
(* Instance of ReadPath for TLC: small containers and legacy files, whole, *)
(* cut short anywhere and damaged, read in every way.  Whole inputs meet   *)
(* every value of every limit, one limit at a time.                        *)
(***************************************************************************)
EXTENDS ReadPath

CONSTANT MaxLimit  \* the largest value given to an option

MCDefault == [f \in LimitNames |-> IF f = "mips" THEN 3 ELSE MaxLimit]
Unset == [f \in LimitNames |-> 0]

MCHeader(dx10, mips, raw) ==
  [dx10 |-> dx10, supported |-> TRUE, caps |-> mips > 1, mips |-> mips,
   expected |-> raw, image |-> raw + 1]

Magics == {COPY, LZ4}

(* Levels of one size are the rule for block formats below 4x4 texels.     *)
Block(magic, raw) == [magic |-> magic, raw |-> raw]
BlockSeqs ==
  {<<Block(m, raw)>> : m \in Magics, raw \in {1, 3}}
  \cup {<<Block(m, 3), Block(n, 2)>> : m \in Magics, n \in Magics}
  \cup {<<Block(m, 1), Block(n, 1)>> : m \in Magics, n \in Magics}
  \cup {<<Block(LZ4, 2), Block(m, 1), Block(COPY, 1)>> : m \in Magics}

Input(header, units, layout, blocks) ==
  [header |-> header, units |-> units, layout |-> layout, blocks |-> blocks, whole |-> TRUE]

Containers ==
  {Input(MCHeader(FALSE, Len(bs), bs[1].raw), Container(FALSE, bs), "container", bs) : bs \in BlockSeqs}
  \cup {LET bs == <<Block(COPY, 3)>>
        IN  Input(MCHeader(TRUE, 1, 3), Container(TRUE, bs), "container", bs)}

(* A legacy file may have a mip count in its header all the same.          *)
LegacyFiles ==
  UNION {{Input(MCHeader(dx10, IF dx10 THEN 2 ELSE 0, raw), Headers(dx10) \o blob, "legacy", << >>) :
            blob \in LegacyBlobs(raw), dx10 \in BOOLEAN} : raw \in 1..3}

Whole == Containers \cup LegacyFiles

Cut(i) == {[i EXCEPT !.units = SubSeq(i.units, 1, n), !.whole = FALSE] : n \in 0..(Len(i.units) - 1)}

(* One unit of the file, or one field of its header, is not what it was.   *)
OtherHeaders(h) ==
  {[h EXCEPT !.mips = m, !.caps = TRUE] : m \in 0..4}
  \cup {[h EXCEPT !.supported = FALSE], [h EXCEPT !.caps = FALSE], [h EXCEPT !.expected = 0],
        [h EXCEPT !.expected = h.expected + 1], [h EXCEPT !.image = 0],
        [h EXCEPT !.expected = 0, !.image = MaxLimit + 1]}
OtherUnits(us) ==
  {[us EXCEPT ![k].value = n] : k \in (HeaderLength + 1)..Len(us), n \in {-1, 0, 2, MaxLimit + 1}}
Damaged(i) ==
  {[i EXCEPT !.header = h, !.layout = "other"] : h \in OtherHeaders(i.header)}
  \cup {[i EXCEPT !.units = us, !.layout = "other"] : us \in OtherUnits(i.units)}

(* A raw legacy payload that begins like a block table.                    *)
Ambiguous ==
  {Input(MCHeader(FALSE, 0, 3), Headers(FALSE) \o Run(m, 0, MagicLength) \o Payload(0, 3 - MagicLength),
         "other", << >>) : m \in Magics}

Options ==
  {[Unset EXCEPT ![f] = n] : f \in LimitNames, n \in -1..MaxLimit}
  \cup {[Unset EXCEPT !.input = n, !.block = k] : n \in 3..9, k \in 1..4}

Ways ==
  {[kind |-> "path", base |-> 0, eager |-> FALSE],
   [kind |-> "seeker", base |-> 0, eager |-> FALSE],
   [kind |-> "seeker", base |-> 1, eager |-> FALSE],
   [kind |-> "stream", base |-> 0, eager |-> FALSE],
   [kind |-> "stream", base |-> 0, eager |-> TRUE]}

Call(way, opts, i) ==
  [kind |-> way.kind, base |-> way.base, eager |-> way.eager, opts |-> opts, header |-> i.header,
   units |-> i.units, layout |-> i.layout, blocks |-> i.blocks, whole |-> i.whole]

MCCalls ==
  {Call(w, o, i) : w \in Ways, o \in Options, i \in Whole}
  \cup {Call(w, Unset, i) : w \in Ways,
        i \in UNION {Cut(j) \cup Damaged(j) : j \in Whole} \cup Ambiguous}
  \cup {Call([kind |-> "config", base |-> 0, eager |-> FALSE], Unset, i) :
        i \in Whole \cup UNION {Cut(j) \cup Damaged(j) : j \in LegacyFiles}}

=============================================================================
