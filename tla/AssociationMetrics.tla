-------------------------- MODULE AssociationMetrics --------------------------
(* The interval algebra of the P1 metrics over an association relation:       *)
(* which track stood for which reference target, and when.  The relation      *)
(* grows by one row at a time, in any order; the metrics below are            *)
(* computed from whatever rows there are, as the plugins of                   *)
(* src/tpaa_metric/m3_identification.py and m3_track.py compute them from     *)
(* their input payload.  Time is counted in whole steps instead of            *)
(* microseconds, ratios are given as numerator and denominator.               *)
EXTENDS Naturals, SequencesExt

CONSTANTS
    Tracks, Targets,
    Horizon,        \* the last time a row may end
    MaxRows,        \* bound: rows in the relation
    Persistence,    \* the persistence and drop thresholds of the profiles
    MaxGap          \* profile.max_gap_us of P1-ID-007

ASSUME MetricConstants ==
    /\ IsFiniteSet(Tracks) /\ IsFiniteSet(Targets)
    /\ Horizon \in Nat \ {0} /\ MaxRows \in Nat /\ MaxGap \in Nat
    /\ Persistence \in Nat \ {0}

VARIABLE relation   \* the rows of the payload

Times == 0 .. Horizon
Instants == 0 .. Horizon - 1                \* [t, t + 1) for each of them
Interval == {i \in Times \X Times : i[1] < i[2]}
Row == [track : Tracks, target : Targets, span : Interval]

EmptyRelation == relation = {}

\* a row that does not end after it starts is refused, rows come in any order
Associate(row) ==
    /\ Cardinality(relation) < MaxRows
    /\ row \notin relation
    /\ relation' = relation \cup {row}

AssociationSpec == EmptyRelation /\ [][\E row \in Row : Associate(row)]_relation

-----------------------------------------------------------------------------
(* Intervals. *)

Before(i, j) == i[1] < j[1] \/ (i[1] = j[1] /\ i[2] < j[2])

InOrder(intervals) ==
    [n \in 1 .. Cardinality(intervals) |->
        CHOOSE i \in intervals : Cardinality({j \in intervals : Before(j, i)}) = n - 1]

\* Mutant of Absorb: an interval that ends inside the last one shortens it
AbsorbLastEnd(merged, i) ==
    IF merged # <<>> /\ i[1] <= Last(merged)[2]
    THEN [merged EXCEPT ![Len(merged)][2] = i[2]]
    ELSE Append(merged, i)

Absorb(merged, i) ==
    IF merged # <<>> /\ i[1] <= Last(merged)[2]
    THEN [merged EXCEPT ![Len(merged)][2] = Max({@, i[2]})]
    ELSE Append(merged, i)

Merged(intervals) == FoldLeft(Absorb, <<>>, InOrder(intervals))

Length(i) == i[2] - i[1]

Duration(intervals) == MapThenSumSet(Length, ToSet(Merged(intervals)))

\* what two intervals have in common, if they meet at all
Common(pair) == <<Max({pair[1][1], pair[2][1]}), Min({pair[1][2], pair[2][2]})>>
Meet(i, j) == Max({i[1], j[1]}) < Min({i[2], j[2]})

IntersectionDuration(left, right) ==
    MapThenSumSet(LAMBDA pair : Length(Common(pair)),
                  {pair \in ToSet(Merged(left)) \X ToSet(Merged(right)) : Meet(pair[1], pair[2])})

\* the drops of a track: from the end of a valid interval to the next valid
\* one of the same opportunity, or to the end of the opportunity
Drops(valid, opportunities) ==
    UNION {LET clipped == Merged({Common(<<v, o>>) :
                                  v \in {w \in ToSet(Merged(valid)) : Meet(w, o)}})
               Next(n) == IF n < Len(clipped) THEN clipped[n + 1][1] ELSE o[2]
           IN  {<<clipped[n][2], Next(n)>> :
                n \in {m \in DOMAIN clipped : clipped[m][2] + Persistence <= Next(m)}}
           : o \in ToSet(Merged(opportunities))}

-----------------------------------------------------------------------------
(* The relation as segments over which it does not change. *)

Boundaries == {r.span[1] : r \in relation} \cup {r.span[2] : r \in relation}

After(t) == Min({u \in Boundaries : u > t})

PairsOver(i) ==
    {<<r.track, r.target>> : r \in {x \in relation : x.span[1] <= i[1] /\ i[2] <= x.span[2]}}

\* segments without any association are left out, so two neighbours in the
\* result may be apart
AddSegment(segments, i) ==
    LET pairs == PairsOver(i) IN
    CASE pairs = {} -> segments
      [] pairs # {} /\ segments # <<>> /\ Last(segments).end = i[1] /\ Last(segments).pairs = pairs ->
            [segments EXCEPT ![Len(segments)].end = i[2]]
      [] OTHER -> Append(segments, [start |-> i[1], end |-> i[2], pairs |-> pairs])

Segments ==
    FoldLeft(AddSegment, <<>>,
             InOrder({<<t, After(t)>> : t \in Boundaries \ {Max(Boundaries \cup {0})}}))

-----------------------------------------------------------------------------
(* Split and merge episodes, duplicates (P1-ID-004, 005 and 006). *)

TRACK == 1
TARGET == 2

\* the tracks with several targets, or the targets with several tracks
Multiple(pairs, side) ==
    {p[side] : p \in {q \in pairs : \E o \in pairs : o # q /\ o[side] = q[side]}}

Qualified(open, keys, end) ==
    {<<k, open[k], end>> : k \in {x \in keys : open[x] + Persistence <= end}}

\* Mutant of Advance: a key that stays multiple starts again with every segment
AdvanceReopens(state, segment, side) ==
    LET open == state.open
        active == Multiple(segment.pairs, side)
    IN  [open |-> [k \in active |-> segment.start],
         closed |-> state.closed \cup Qualified(open, DOMAIN open \ active, segment.start)]

\* one segment: the keys that are no longer multiple close where it starts,
\* the new ones open there
Advance(state, segment, side) ==
    LET open == state.open
        active == Multiple(segment.pairs, side)
    IN  [open |-> [k \in active |-> IF k \in DOMAIN open THEN open[k] ELSE segment.start],
         closed |-> state.closed \cup Qualified(open, DOMAIN open \ active, segment.start)]

Episodes(side) ==
    LET Step(state, segment) == Advance(state, segment, side)
        segments == Segments
        final == FoldLeft(Step, [open |-> <<>>, closed |-> {}], segments)
    IN  final.closed \cup Qualified(final.open, DOMAIN final.open, Last(segments).end)

SpansOf(pairs) == {r.span : r \in {x \in relation : <<x.track, x.target>> \in pairs}}

TargetDwell == MapThenSumSet(LAMBDA g : Duration(SpansOf(Tracks \X {g})), Targets)

DuplicateDwell == MapThenSumSet(LAMBDA e : e[3] - e[2], Episodes(TARGET))

-----------------------------------------------------------------------------
(* Swaps (P1-ID-003). *)

\* the assignment of a segment, when no track has two targets
Functional(segment) == Multiple(segment.pairs, TRACK) = {}

TargetOf(segment, k) == CHOOSE g \in Targets : <<k, g>> \in segment.pairs

Tracked(segment) == {p[TRACK] : p \in segment.pairs}

Changed(previous, current) ==
    {k \in Tracked(previous) \cap Tracked(current) : TargetOf(previous, k) # TargetOf(current, k)}

\* Mutant of Exchanged: two tracks that change their targets need not have exchanged them
ExchangedAny(previous, current) == Cardinality(Changed(previous, current)) = 2

Exchanged(previous, current) ==
    /\ Cardinality(Changed(previous, current)) = 2
    /\ \A k, l \in Changed(previous, current) :
          k # l => TargetOf(previous, k) = TargetOf(current, l)

Touching(segments) == {n \in 1 .. Len(segments) - 1 : segments[n].end = segments[n + 1].start}

\* M3_ID_ASSIGNMENT_NONFUNCTIONAL: the metric fails as a whole
SwapsRefused ==
    LET segments == Segments IN
    \E n \in Touching(segments) : ~Functional(segments[n]) \/ ~Functional(segments[n + 1])

Swaps ==
    LET segments == Segments
        At(n) == [start |-> segments[n + 1].start, end |-> segments[n + 1].end,
                  tracks |-> Changed(segments[n], segments[n + 1])]
    IN  {At(n) : n \in {m \in Touching(segments) :
            /\ Exchanged(segments[m], segments[m + 1])
            /\ segments[m + 1].start + Persistence <= segments[m + 1].end}}

-----------------------------------------------------------------------------
(* Identity continuity (P1-ID-007). *)

\* an identity segment is <<start, end, dwell>>
Continue(segments, i) ==
    IF segments # <<>> /\ i[1] <= Last(segments)[2] + MaxGap
    THEN Append(Front(segments), <<Last(segments)[1], Max({Last(segments)[2], i[2]}),
                                   Last(segments)[3] + Length(i)>>)
    ELSE Append(segments, <<i[1], i[2], Length(i)>>)

IdentitySegments(pair) == ToSet(FoldLeft(Continue, <<>>, InOrder(SpansOf({pair}))))

EligibleIdentity ==
    {s \in UNION {IdentitySegments(pair) : pair \in Tracks \X Targets} : s[1] + Persistence <= s[2]}

\* over TargetDwell it is the identity continuity
LongestIdentity == Max({s[3] : s \in EligibleIdentity} \cup {0})

-----------------------------------------------------------------------------
(* What the metrics mean, instant by instant. *)

Holds(t) == {<<r.track, r.target>> : r \in {x \in relation : x.span[1] <= t /\ t < x.span[2]}}

Timeline == [t \in Instants |-> Holds(t)]

\* the instants in which one of the pairs is associated
CoveredBy(pairs) == {t \in Instants : Holds(t) \cap pairs # {}}

\* the maximal stretches of a set of instants, at least so long
Stretches(instants, length) ==
    {i \in Interval : /\ i[1] .. i[2] - 1 \subseteq instants
                      /\ (i[1] = 0 \/ i[1] - 1 \notin instants) /\ i[2] \notin instants
                      /\ i[1] + length <= i[2]}

Pairs == Tracks \X Targets

\* the rows of a pair do not overlap: the payload says once that they belong together
OnceOnly(pair) ==
    \A r, s \in {x \in relation : <<x.track, x.target>> = pair} : r = s \/ ~Meet(r.span, s.span)

\* The durations the metrics divide are counts of instants, whatever rows they
\* were merged from: the dwell of a target, the intersection of track validity
\* and opportunity (P1-TRK-004, a pair's rows standing for each), and the dwell
\* of every identity segment, which joins the instants of a pair that are no
\* further than max_gap apart (P1-ID-007), as long as no instant is reported
\* twice; the longest of them is then no longer than the targets were tracked.
\* A drop is counted for every stretch, at least the threshold long, in which
\* the opportunity lasts, the track is not valid, and before which it was valid
\* within the same opportunity (P1-TRK-005): neither the time before the first
\* acquisition nor a glitch, and none twice.
DwellsExact ==
    /\ relation \subseteq Row
    /\ \A g \in Targets :
          Duration(SpansOf(Tracks \X {g})) = Cardinality(CoveredBy(Tracks \X {g}))
    /\ \A p, q \in Pairs :
          LET valid == CoveredBy({p})
              opportunity == CoveredBy({q})
          IN  /\ IntersectionDuration(SpansOf({p}), SpansOf({q})) = Cardinality(valid \cap opportunity)
              /\ Drops(SpansOf({p}), SpansOf({q}))
                    = {i \in Stretches(opportunity \ valid, Persistence) :
                          i[1] - 1 \in opportunity \cap valid}
    /\ (\A p \in Pairs : OnceOnly(p)) => LongestIdentity <= TargetDwell
    /\ \A p \in {x \in Pairs : OnceOnly(x)} :
          LET covered == CoveredBy({p})
              near == {t \in Instants : \E u, v \in covered : u <= t /\ t <= v /\ v - u <= MaxGap + 1}
          IN  IdentitySegments(p)
                  = {<<i[1], i[2], Cardinality(covered \cap i[1] .. i[2] - 1)>> : i \in Stretches(near, 1)}

\* Wherever a key has several counterparts continuously and at least for the
\* threshold, as the catalog asks of a split, a merge and a duplicate, an episode
\* contains that time; and an episode in which something is associated all the
\* time is such a stretch, from its first instant to its last: it neither joins
\* two of them nor ends early.  What an episode is that reaches over an instant
\* without any association is not stated.  As long as there is no such instant,
\* duplicates cannot last longer than the targets were tracked (P1-ID-006 is a
\* ratio).
EpisodesExact ==
    LET timeline == Timeline
        busy == {t \in Instants : timeline[t] # {}}
        span == IF busy = {} THEN {} ELSE Min(busy) .. Max(busy)
        Continuous(side) ==
            UNION {LET several == {t \in Instants : k \in Multiple(timeline[t], side)}
                   IN  {<<k, i[1], i[2]>> : i \in Stretches(several, Persistence)}
                   : k \in IF side = TRACK THEN Tracks ELSE Targets}
    IN  relation # {} =>
        /\ \A side \in {TRACK, TARGET} :
              /\ \A c \in Continuous(side) :
                    \E e \in Episodes(side) : e[1] = c[1] /\ e[2] <= c[2] /\ c[3] <= e[3]
              /\ \A e \in Episodes(side) : e[2] .. e[3] - 1 \subseteq busy => e \in Continuous(side)
        /\ span = busy => DuplicateDwell <= TargetDwell

\* The swap metric fails when a track stands for two targets next to any change
\* of the relation, and then only.  Where it does not fail, whatever it counts is
\* a swap of the catalog: two tracks exchange their targets from one instant to
\* the next and the exchanged assignment persists for the threshold; none is
\* counted twice.  And when two tracks alone change their targets, exchange them
\* and the relation then stays for the threshold, that is counted.  Whether an
\* exchange is counted while other tracks change, at that instant or within the
\* threshold, is not stated.
SwapsExact ==
    LET timeline == Timeline
        changes == {t \in Instants \ {0} : timeline[t] # timeline[t - 1]
                                           /\ timeline[t] # {} /\ timeline[t - 1] # {}}
        Turned(t) ==
            {k \in Tracks : \E g, h \in Targets :
                g # h /\ <<k, g>> \in timeline[t - 1] /\ <<k, h>> \in timeline[t]}
        Traded(k, l, t, end) ==
            \E g, h \in Targets :
                /\ g # h /\ {<<k, g>>, <<l, h>>} \subseteq timeline[t - 1]
                /\ \A u \in t .. end - 1 : {<<k, h>>, <<l, g>>} \subseteq timeline[u]
    IN  /\ SwapsRefused <=> \E t \in changes : Multiple(timeline[t], TRACK) # {}
                                                \/ Multiple(timeline[t - 1], TRACK) # {}
        /\ ~SwapsRefused =>
              /\ \A s \in Swaps :
                    /\ s.start + Persistence <= s.end
                    /\ \E k, l \in Tracks : k # l /\ s.tracks = {k, l} /\ Traded(k, l, s.start, s.end)
                    /\ \A r \in Swaps : r.start = s.start => r = s
              /\ \A t \in changes : \A k, l \in Tracks :
                    (/\ k # l /\ Turned(t) = {k, l} /\ Traded(k, l, t, t + 1)
                     /\ \A u \in t .. t + Persistence - 1 : u \in Instants /\ timeline[u] = timeline[t])
                    => \E s \in Swaps : s.start = t /\ s.tracks = {k, l}

=============================================================================
