----------------------------- MODULE MCSession ------------------------------
EXTENDS Session

CONSTANTS app, page, feed, row, note

\* The application renders a page and a note; the page, while it shows rows, a
\* list of them on demand.
SiteParent ==
    [c \in Site \ {app} |-> CASE c \in {page, note} -> app [] c = feed -> page [] OTHER -> feed]

\* The page shows no rows at 0; the note holds nothing that changes.
SiteValues ==
    [c \in Holders |-> CASE c = app -> {1, Shared} [] c = note -> {0} [] OTHER -> {0, 1}]
=============================================================================
