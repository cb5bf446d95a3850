--------------------------- MODULE MCSettingsManager ---------------------------
EXTENDS SettingsManager

\* Three projects, a list of two, two entries on two pages, and a term like a/b
\* that no dictionary takes.
MCProjects == 1..3
MCEntries == 1..2
MCTerms == {2}
MCRefused == {3}
=============================================================================
