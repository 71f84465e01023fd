---------------------------- MODULE SeriesStore ----------------------------
(***************************************************************************)
(* What PostgreSQL holds for one series, and the two transactions that     *)
(* write it.  A reducer's floating-point state is represented by what      *)
(* determines it: how many bars it has folded and which.                   *)
(***************************************************************************)
EXTENDS Bars

CONSTANTS
  Periods,         \* every EMA period that may be configured
  MarketVersions,  \* market algorithm versions that may be deployed
  None             \* absent value

ASSUME StoreAssumption ==
  /\ Periods \subseteq Nat \ {0}
  /\ None \notin Bar

Config == [periods : (SUBSET Periods) \ {{}}, market : MarketVersions]

Reducer == [samples : Nat, bars : SUBSET Bar]

Snapshot == [t : Nat, reducer : Reducer]

\* A row of signal_indicator_points; basis stands for its value.
Point == [period : Periods, t : Nat, rev : Nat, samples : Nat, basis : SUBSET Bar]

\* A row of signal_event_outbox: an EMA point, a confirmed market frame or
\* an authoritative reset, with the bars its payload was computed from.
Row == [kind : {"point", "frame", "reset"}, periods : SUBSET Periods,
        market : MarketVersions \cup {None}, t : Nat, rev : Nat, basis : SUBSET Bar]

Database == [cursor : Bar \cup {None},
             emaSnaps : [Periods -> Snapshot \cup {None}],
             marketSnaps : [MarketVersions -> Snapshot \cup {None}],
             points : SUBSET Point,
             outbox : SUBSET Row]

EmptyDatabase ==
  [cursor |-> None,
   emaSnaps |-> [p \in Periods |-> None],
   marketSnaps |-> [m \in MarketVersions |-> None],
   points |-> {},
   outbox |-> {}]

-----------------------------------------------------------------------------
\* The identity hashed into event_id.  A reset hashes the frame's identity
\* once more, so it differs from the frame's by its kind and by nothing else.
EventID(r) == <<r.kind, r.periods, r.market, r.t, r.rev>>

\* INSERT ... ON CONFLICT (event_id): an existing row keeps its payload.
InsertOutbox(outbox, rows) ==
  outbox \cup {r \in rows : \A o \in outbox : EventID(o) # EventID(r)}

PointKey(q) == <<q.period, q.t, q.rev>>

\* insertPoint: ON CONFLICT on the point's key the new value replaces the old.
UpsertPoints(points, new) ==
  {q \in points : \A n \in new : PointKey(n) # PointKey(q)} \cup new

PointRow(q) ==
  [kind |-> "point", periods |-> {q.period}, market |-> None,
   t |-> q.t, rev |-> q.rev, basis |-> q.basis]

\* upsertSnapshot for every configured reducer, all stamped with bar's time.
SaveSnapshots(d, c, ema, market, bar) ==
  [d EXCEPT
    !.emaSnaps = [p \in Periods |-> IF p \in c.periods
                                      THEN [t |-> bar.t, reducer |-> ema[p]]
                                      ELSE @[p]],
    !.marketSnaps = [@ EXCEPT ![c.market] = [t |-> bar.t, reducer |-> market]]]

\* CommitClosed refuses a bar at or behind the cursor unless it is the very
\* bar the cursor stands on, which it acknowledges without writing.
AlreadyCommitted(d, bar) ==
  d.cursor # None /\ bar.t = d.cursor.t /\ Fingerprint(bar) = Fingerprint(d.cursor)

ConflictsWithCursor(d, bar) ==
  d.cursor # None /\ bar.t <= d.cursor.t /\ ~AlreadyCommitted(d, bar)

CommitClosed(d, bar, points, frame) ==
  [d EXCEPT !.points = UpsertPoints(@, points),
            !.outbox = InsertOutbox(@, {PointRow(q) : q \in points} \cup {frame}),
            !.cursor = bar]

\* Mutant: upsertCursor without its comparison.
CursorUnguarded(d, last) == FALSE

\* upsertCursor lets the cursor stay or advance.
MovesBackwards(d, last) ==
  last # None /\ d.cursor # None /\ last.t < d.cursor.t

\* Mutant: the old points are not deleted.
RebuildKeepingPoints(d, points, resets, last) ==
  [d EXCEPT !.emaSnaps = [p \in Periods |-> None],
            !.marketSnaps = [m \in MarketVersions |-> None],
            !.points = UpsertPoints(@, points),
            !.outbox = InsertOutbox(@, resets),
            !.cursor = IF last = None THEN @ ELSE last]

\* RebuildSeries replaces points and snapshots; only a reset reaches the
\* outbox, and a seed without closed bars leaves the cursor where it was.
RebuildSeries(d, points, resets, last) ==
  [d EXCEPT !.emaSnaps = [p \in Periods |-> None],
            !.marketSnaps = [m \in MarketVersions |-> None],
            !.points = points,
            !.outbox = InsertOutbox(@, resets),
            !.cursor = IF last = None THEN @ ELSE last]

=============================================================================
