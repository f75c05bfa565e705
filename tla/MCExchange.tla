----------------------------- MODULE MCExchange -----------------------------
EXTENDS Exchange

\* Content-Type set, set again and removed, headers added twice, one that is
\* too long, and the calls whose header does not matter.
MCHeaderCalls ==
    LET Of(op, name, value) == [op |-> op, h |-> [name |-> name, value |-> value]]
    IN  {Of("replace", "Content-Type", "stream"), Of("replace", "Content-Type", "plain"),
         Of("delete", "Content-Type", "plain"),
         Of("add", "X-Sendfile", "plain"), Of("add", "X-Data", "long"),
         Of("delete_all", "X-Sendfile", "plain"), Of("status", "X-Sendfile", "plain")}
=============================================================================
