-------------------------------- MODULE Palette ---------------------------------
(***************************************************************************)
(* The command palette (frontend/src/components/layout/                    *)
(* CommandPalette.tsx): a query whose semantic search is debounced by a    *)
(* timer and aborted by the next keystroke, a list of commands followed by *)
(* the passages that were found, and a cursor over both.                   *)
(***************************************************************************)
EXTENDS Naturals, FiniteSets

CONSTANTS
    CommandsFor,  \* CommandsFor[q]: how many commands match the query q
    Short,        \* queries of fewer than three characters, "" among them
    MaxHits       \* bound on the passages a search returns (top_k)

Queries == DOMAIN CommandsFor
NoQuery == "none"

VARIABLES
    paletteOpen,
    text,        \* `query`
    found,       \* [of, hits]: `matches`, and the query they were found for
    searching,
    cursor,
    debounce,    \* the timer of `text` is pending
    current,     \* the query whose search is on its way, not aborted
    outdated     \* those that are on their way and aborted

paletteVars == <<paletteOpen, text, found, searching, cursor, debounce, current, outdated>>

NothingFound == [of |-> "", hits |-> 0]
\* With no text every command is listed, and no text lists more of them.
MaxItems == CommandsFor[""] + MaxHits

PaletteTypeOK ==
    /\ {paletteOpen, searching, debounce} \subseteq BOOLEAN
    /\ text \in Queries
    /\ found \in [of : Queries, hits : 0..MaxHits]
    /\ cursor \in 0..MaxItems
    /\ current \in Queries \cup {NoQuery}
    /\ outdated \subseteq Queries

\* The effect runs once on mount, for the empty query.
PaletteInit ==
    /\ paletteOpen = FALSE
    /\ text = ""
    /\ found = NothingFound
    /\ searching = FALSE
    /\ cursor = 0
    /\ debounce = TRUE
    /\ current = NoQuery
    /\ outdated = {}

-----------------------------------------------------------------------------
\* What the dialog lists.

Filtered == CommandsFor[text]
TotalItems == Filtered + found.hits

\* The row at an index: a command, a passage, or none.
ItemAt(index) ==
    IF index < Filtered THEN "command" ELSE IF index < TotalItems THEN "passage" ELSE "none"

-----------------------------------------------------------------------------
\* The effect on `query`: what belonged to the old text is cancelled, and a
\* timer is set.  The same text again is no change.
TextBecomes(q) ==
    /\ text' = q
    /\ IF q = text
       THEN UNCHANGED <<debounce, current, outdated>>
       ELSE /\ debounce' = TRUE
            /\ current' = NoQuery
            /\ outdated' = outdated \cup ({current} \ {NoQuery})

\* close(): it clears the text and what was found.
Closed ==
    /\ paletteOpen' = FALSE
    /\ TextBecomes("")
    /\ found' = NothingFound
    /\ cursor' = 0
    /\ UNCHANGED searching

\* The shortcut toggles and clears nothing; the button of the navbar opens.
PressShortcut ==
    /\ paletteOpen' = ~paletteOpen
    /\ UNCHANGED <<text, found, searching, cursor, debounce, current, outdated>>

\* Escape, whether the palette is open or not, or the backdrop.
PressEscape == Closed

Type(q) ==
    /\ paletteOpen
    /\ q # text
    /\ TextBecomes(q)
    /\ cursor' = 0
    /\ UNCHANGED <<paletteOpen, found, searching>>

\* The arrow keys go round; the mouse sets the cursor on the row it is over.
MoveCursor ==
    /\ paletteOpen
    /\ \/ /\ TotalItems > 0
          /\ cursor' \in {(cursor + 1) % TotalItems, (cursor + TotalItems - 1) % TotalItems}
       \/ TotalItems = 0 /\ cursor' = 0
       \/ cursor' \in {i \in 0..MaxItems : i < TotalItems}
    /\ UNCHANGED <<paletteOpen, text, found, searching, debounce, current, outdated>>

\* Enter runs the command, asks the query for a passage, does nothing on a
\* row that is gone, and asks the query where nothing is listed.
PressEnter ==
    /\ paletteOpen
    /\ TotalItems > 0 \/ text # ""
    /\ Closed

\* A click on a row.
Activate ==
    /\ paletteOpen
    /\ \E i \in 0..MaxItems : ItemAt(i) # "none"
    /\ Closed

-----------------------------------------------------------------------------
\* The search.

\* 260 ms after the last keystroke.
DebounceTimer ==
    /\ debounce
    /\ debounce' = FALSE
    /\ IF text \in Short
       THEN found' = NothingFound /\ searching' = FALSE /\ UNCHANGED current
       ELSE searching' = TRUE /\ current' = text /\ UNCHANGED found
    /\ UNCHANGED <<paletteOpen, text, cursor, outdated>>

\* An answer, or a failure, of the search that is not aborted.
SearchLands ==
    /\ current # NoQuery
    /\ \E n \in 0..MaxHits : found' = [of |-> current, hits |-> n]
    /\ searching' = FALSE
    /\ current' = NoQuery
    /\ UNCHANGED <<paletteOpen, text, cursor, debounce, outdated>>

\* Slip: the answer of an aborted search is not dropped.
OutdatedShown(q) ==
    /\ q \in outdated
    /\ outdated' = outdated \ {q}
    /\ \E n \in 0..MaxHits : found' = [of |-> q, hits |-> n]
    /\ UNCHANGED <<paletteOpen, text, searching, cursor, debounce, current>>

\* One that was aborted: the request cannot be called back, its answer is
\* dropped.
OutdatedLands(q) ==
    /\ q \in outdated
    /\ outdated' = outdated \ {q}
    /\ UNCHANGED <<paletteOpen, text, found, searching, cursor, debounce, current>>

PaletteNext ==
    \/ PressShortcut \/ PressEscape \/ MoveCursor \/ PressEnter \/ Activate
    \/ \E q \in Queries : Type(q) \/ OutdatedLands(q)
    \/ DebounceTimer \/ SearchLands

PaletteSpec == PaletteInit /\ [][PaletteNext]_paletteVars

-----------------------------------------------------------------------------
(* The passages that are listed are those of the text above them, however  *)
(* the answers of earlier keystrokes are delayed, unless its own search is *)
(* about to replace them; and the spinner turns only until then.           *)
MatchesAreOfTheText ==
    ~debounce /\ current = NoQuery =>
        /\ found.hits > 0 => found.of = text
        /\ ~searching

\* Why it holds: a search that was not aborted is for the text above it.
PaletteInv ==
    /\ text \in Queries /\ {searching, debounce} \subseteq BOOLEAN
    /\ current # NoQuery => current = text /\ ~debounce
    /\ MatchesAreOfTheText
=============================================================================
