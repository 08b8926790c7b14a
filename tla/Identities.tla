----------------------------- MODULE Identities -----------------------------
(***************************************************************************)
(* What signals and instruments are known by, side by side: the rows of    *)
(* signals and the list of instruments share nothing but the names.        *)
(***************************************************************************)
EXTENDS SignalRows, Instruments

identities == <<signals, listing>>

IdentitiesNext ==
  \/ SignalsNext /\ UNCHANGED listing
  \/ ListingNext /\ UNCHANGED signals

IdentitiesSpec == SignalsInit /\ ListingInit /\ [][IdentitiesNext]_identities

\* What a signal, a trade and an instrument are known by is the same wherever it is
\* looked up, and tells them apart (strategy_workflow.py:171, common/base.py:169,
\* contracts.py:155, payload_builder.py:68,146, dhan_security_map.py:160).
IdentitiesHold ==
  /\ [](NothingReported /\ IdsKept /\ IdsTellApart /\ OneInstrumentAlone /\ SegmentsAgreeWhereTold)
  /\ CandlesStay
=============================================================================
