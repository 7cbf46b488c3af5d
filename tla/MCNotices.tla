----------------------------- MODULE MCNotices -----------------------------
(* Notices with a few checks at a time, each with what can meet it. *)
EXTENDS Notices

Watched(checks, calls, moves, switched, turn) ==
  [checks |-> checks, calls |-> calls, moves |-> moves, on |-> switched, turn |-> turn,
   world |-> [c \in Subject |-> IF c \in {"boot", "report", "traffic", "wan", "comm"} THEN 1 ELSE 0]]

Alone(c, calls) == Watched({c}, calls, {c}, {"kinds"}, {})

MCScenarios ==
  {Alone(c, {"run"}) : c \in {"wan", "client", "cert"}} \cup
  {Alone(c, {}) : c \in {"host", "site", "pubip", "config", "logins", "scan"}} \cup {
  Watched({"pubip", "cgnat"}, {}, {"cgnat"}, {"kinds"}, {}),
  Watched({"mac"}, {}, {"mac"}, {"kinds"}, {"unknown", "kinds"}),
  Watched({"comm", "power", "battery"}, {}, {"comm", "battery"}, {"kinds"}, {}),
  Watched({"traffic", "report"}, {}, {"traffic", "report"}, {"report"}, {}),
  Watched({"report"}, {}, {"report"}, {"report"}, {"report"}),
  Watched({"backup"}, {"backup1", "backup2"}, {}, {"backup"}, {"backup"}),
  Watched({"boot", "daemon"}, {}, {"daemon"}, {"kinds"}, {}) }

MCReboots == {Watched({"boot", "daemon"}, {}, {}, {}, {})}
=============================================================================
