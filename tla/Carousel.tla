------------------------------ MODULE Carousel ------------------------------
(***************************************************************************)
(* The carousel of the Games tab (menusys.c and themes.c): the filter      *)
(* (favourites, recently played, all, one letter), the game the cursor is  *)
(* on, and the lists of favourite and recently played games, which are     *)
(* kept in the configuration and read again when the launcher starts.      *)
(*                                                                         *)
(* An entry of the merged list has a startup name (two devices may hold    *)
(* the same game) and a title, of which only two things matter: its first  *)
(* letter, and the first letter after an article ("The", "Die"...).        *)
(* Drawing, sounds, play times and the titles kept in the lists are left   *)
(* out.                                                                    *)
(***************************************************************************)
EXTENDS Naturals, Sequences, FiniteSets

CONSTANTS Startup,      \* the startup name of each entry, in the list's order
          FirstLetter,  \* the filter of the first letter of its title; 0: none
          SortLetter,   \* the same after the article
          LastFilter,   \* the filter of the last letter: 28
          MaxFavorites, \* PS5_MAX_FAVORITES
          MaxRecent,    \* PS5_MAX_RECENT
          NoStartup,    \* no startup name
          MaxCarousel   \* bound: keys that change a list, and starts

Entries == 1 .. Len(Startup)
NoEntry == 0
Filters == 0 .. LastFilter
Startups == {Startup[e] : e \in Entries}

ASSUME CarouselAssumption ==
  /\ Startup \in Seq(Startups) /\ Startup # <<>>
  /\ FirstLetter \in [Entries -> {0} \cup 3 .. LastFilter]
  /\ SortLetter \in [Entries -> {0} \cup 3 .. LastFilter]
  /\ LastFilter \in Nat \ 0 .. 2
  /\ {MaxFavorites, MaxRecent} \subseteq Nat \ {0} /\ MaxCarousel \in Nat
  /\ NoStartup \notin Startups

VARIABLES available, \* the entries whose device is there
          cursor,    \* selected_item->item->current
          filter,    \* gPS5AlphaIdx
          sortMode,  \* gPS5SortMode
          favorites, \* gPS5Favorites
          recent,    \* gPS5Recent
          file,      \* the lists in the configuration file
          played,    \* history: the games started, in order
          used       \* the keys used of the bound

caVars == <<available, cursor, filter, sortMode, favorites, recent, file, played, used>>

Count == used < MaxCarousel /\ used' = used + 1
Elements(s) == {s[i] : i \in DOMAIN s}

CaTypeOK ==
  /\ available \in SUBSET Entries
  /\ cursor \in Entries /\ filter \in Filters /\ sortMode \in {0, 1}
  /\ Elements(favorites) \subseteq Startups /\ Len(favorites) <= MaxFavorites
  /\ Elements(recent) \subseteq Startups /\ Len(recent) <= MaxRecent
  /\ used \in 0 .. MaxCarousel

-----------------------------------------------------------------------------
(* The lists.                                                              *)

\* ps5LoadRecent takes the last game OPL started when there is no list yet.
LoadRecent(f) == IF f.recent = <<>> /\ f.last # NoStartup THEN <<f.last>> ELSE f.recent

\* A mutant of RecordRecent: a game that is in the list stays where it is.
RecordRecentOnce(list, s) ==
  IF s \in Elements(list) THEN list
  ELSE SubSeq(<<s>> \o list, 1, IF Len(list) < MaxRecent THEN Len(list) + 1 ELSE MaxRecent)

\* ps5RecordRecentlyPlayedEx: the game moves, or comes, to the front, and the
\* oldest one falls off a list that is full.
RecordRecent(list, s) ==
  LET at == {i \in DOMAIN list : list[i] = s}
      last == IF at # {} THEN CHOOSE i \in at : \A j \in at : i <= j
              ELSE IF Len(list) < MaxRecent THEN Len(list) + 1 ELSE Len(list)
  IN [i \in 1 .. (IF last > Len(list) THEN last ELSE Len(list)) |->
        IF i = 1 THEN s ELSE IF i <= last THEN list[i - 1] ELSE list[i]]

\* A mutant of ToggleFavorite: the list is never full.
ToggleFavoriteAlways(list, s) ==
  IF s \in Elements(list) THEN SelectSeq(list, LAMBDA t : t # s) ELSE Append(list, s)

\* ps5ToggleGameFavoriteEx: a full list takes no other game.
ToggleFavorite(list, s) ==
  LET at == {i \in DOMAIN list : list[i] = s}
      i == CHOOSE i \in at : \A j \in at : i <= j
  IN IF at # {} THEN SubSeq(list, 1, i - 1) \o SubSeq(list, i + 1, Len(list))
     ELSE IF Len(list) < MaxFavorites THEN Append(list, s) ELSE list

\* saveConfigQuiet: both lists are put in the configuration, and the file is
\* written, or cannot be.
SaveLists == \/ file' = [file EXCEPT !.favorites = favorites', !.recent = recent',
                                     !.played = played']
             \/ UNCHANGED file

-----------------------------------------------------------------------------
(* The two filters: the one of the keys and the one of the screen.         *)

Listed(e, f) == Startup[e] \in Elements(IF f = 0 THEN favorites ELSE recent)

\* ps5MenuGameIsVisible and ps5MenuTitleMatchesAlpha, by the keys.
MenuGameIsVisible(e) ==
  /\ e \in available
  /\ \/ filter \in {0, 1} /\ Listed(e, filter)
     \/ filter = 2
     \/ filter > 2 /\ FirstLetter[e] = filter

\* themeGameItemIsAvailable and ps5GameMatchesFilter, by the screen and Up, Down.
GameMatchesFilter(e, f) ==
  /\ e \in available
  /\ \/ f \in {0, 1} /\ Listed(e, f)
     \/ f = 2
     \/ f > 2 /\ SortLetter[e] = f

Visible == {e \in Entries : MenuGameIsVisible(e)}
Matching(f) == {e \in Entries : GameMatchesFilter(e, f)}
FirstOf(S) == CHOOSE e \in S : \A d \in S : e <= d
LastOf(S) == CHOOSE e \in S : \A d \in S : e >= d

\* ps5MenuGetActionGame: the game a key acts on.
ActionGame == IF cursor \in Visible THEN cursor
              ELSE IF Visible # {} THEN FirstOf(Visible) ELSE NoEntry

\* drawPS5Launcher: the game shown as selected.
ShownGame == IF cursor \in Matching(filter) THEN cursor
             ELSE IF Matching(filter) # {} THEN FirstOf(Matching(filter)) ELSE NoEntry

-----------------------------------------------------------------------------

CaInit ==
  /\ file \in [favorites : {<<>>}, recent : {<<>>}, played : {<<>>},
               last : Startups \cup {NoStartup}]
  /\ favorites = <<>> /\ recent = LoadRecent(file) /\ played = recent
  /\ available = Entries /\ cursor = 1 /\ filter = 2 /\ sortMode \in {0, 1}
  /\ used = 0

\* ps5MenuMoveGame: the games the filter shows, in a ring.
IndexOf(e) == Cardinality({d \in Visible : d < e})
AtIndex(i) == CHOOSE e \in Visible : IndexOf(e) = i

\* A mutant of TargetIndex: the index is taken after the game is counted.
TargetIndexAfter(direction) ==
  LET n == Cardinality(Visible)
  IN IF cursor \notin Visible THEN IF direction > 0 THEN 0 ELSE n - 1
     ELSE IF direction > 0 THEN IF IndexOf(cursor) + 2 >= n THEN 0 ELSE IndexOf(cursor) + 2
     ELSE IndexOf(cursor)

TargetIndex(direction) ==
  LET n == Cardinality(Visible)
  IN IF cursor \notin Visible THEN IF direction > 0 THEN 0 ELSE n - 1
     ELSE IF direction > 0 THEN (IndexOf(cursor) + 1) % n
     ELSE (IndexOf(cursor) + n - 1) % n

MenuMoveGame(direction) ==
  /\ Visible # {}
  /\ cursor' = AtIndex(TargetIndex(direction))
  /\ UNCHANGED <<available, filter, sortMode, favorites, recent, file, played, used>>

\* ps5JumpToAlphabetGame.
JumpTo(f) == cursor' = IF Matching(f) = {} THEN cursor ELSE FirstOf(Matching(f))

\* The filter ps5MoveAlphabetGame goes to: the next one, or, when sorting, the
\* next one with a game; upwards at last the favourites, downwards it stays.
NextFilter(direction) ==
  LET full(S) == {f \in S : Matching(f) # {}}
      below == full(IF filter = LastFilter THEN {} ELSE filter + 1 .. LastFilter)
      above == full(IF filter = 0 THEN {} ELSE 0 .. filter - 1)
  IN IF sortMode = 0
     THEN IF direction > 0 THEN IF filter = LastFilter THEN LastFilter ELSE filter + 1
          ELSE IF filter = 0 THEN 0 ELSE filter - 1
     ELSE IF direction > 0 THEN IF below = {} THEN filter ELSE FirstOf(below)
     ELSE IF above = {} THEN 0 ELSE LastOf(above)

MoveAlphabet(direction) ==
  LET f == NextFilter(direction)
      stays == sortMode = 1 /\ direction > 0 /\ f = filter
  IN /\ filter' = f
     /\ IF stays THEN UNCHANGED cursor ELSE JumpTo(f)
     /\ UNCHANGED <<available, sortMode, favorites, recent, file, played, used>>

\* Cross: the game is recorded, and started.
Cross ==
  /\ ActionGame # NoEntry /\ Count
  /\ cursor' = ActionGame
  /\ recent' = RecordRecent(recent, Startup[ActionGame])
  /\ played' = Append(played, Startup[ActionGame])
  /\ UNCHANGED <<available, filter, sortMode, favorites>>
  /\ SaveLists

\* Select.
Select ==
  /\ ActionGame # NoEntry /\ Count
  /\ cursor' = ActionGame
  /\ favorites' = ToggleFavorite(favorites, Startup[ActionGame])
  /\ UNCHANGED <<available, filter, sortMode, recent, played>>
  /\ IF favorites' = favorites THEN UNCHANGED file ELSE SaveLists

\* ps5SaveSettings and ps5CancelSettings: the other mode of Up and Down.
ChangeSort ==
  /\ Count /\ sortMode' = 1 - sortMode
  /\ UNCHANGED <<available, cursor, filter, favorites, recent, file, played>>

\* A device comes or goes.
Devices ==
  /\ Count
  /\ \E e \in Entries : available' = IF e \in available THEN available \ {e}
                                     ELSE available \cup {e}
  /\ UNCHANGED <<cursor, filter, sortMode, favorites, recent, file, played>>

\* The launcher starts again, after a game or after the power was off.
Restart ==
  /\ Count
  /\ favorites' = file.favorites
  /\ recent' = LoadRecent(file)
  /\ played' = IF file.recent = <<>> THEN LoadRecent(file) ELSE file.played
  /\ filter' = 2 /\ cursor' = 1 /\ available' = Entries
  /\ UNCHANGED <<sortMode, file>>

CaNext ==
  \/ \E direction \in {0, 1} : MenuMoveGame(direction) \/ MoveAlphabet(direction)
  \/ Cross \/ Select \/ ChangeSort \/ Devices \/ Restart

CaSpec == CaInit /\ [][CaNext]_caVars

-----------------------------------------------------------------------------

\* The recently played games are the last games that were started, each once,
\* the latest first, as many as the list holds: what moving and dropping entries
\* of the list comes to, over restarts and files that could not be written.
Latest(s) == LastOf({i \in DOMAIN played : played[i] = s})
RecentIsHistory ==
  LET all == Elements(played)
      n == Cardinality(all)
  IN /\ Len(recent) = IF n < MaxRecent THEN n ELSE MaxRecent
     /\ \A k \in DOMAIN recent :
          Cardinality({s \in all : Latest(s) > Latest(recent[k])}) = k - 1

\* In a ring of the entries S, b comes after a.
NextInRing(S, a, b) ==
  IF \E e \in S : e > a THEN b > a /\ \A e \in S : e <= a \/ e >= b ELSE b = FirstOf(S)

\* Left and Right go round all the games the filter shows: the game they reach
\* is the neighbour of the one they leave, and from a game that is not shown
\* they come to an end of the list.
MoveIsNext ==
  [][\A direction \in {0, 1} :
       caVars' # caVars /\ MenuMoveGame(direction) =>
         /\ cursor' \in Visible
         /\ CASE cursor \notin Visible ->
                   cursor' = IF direction > 0 THEN FirstOf(Visible) ELSE LastOf(Visible)
              [] cursor \in Visible /\ direction > 0 -> NextInRing(Visible, cursor, cursor')
              [] OTHER -> NextInRing(Visible, cursor', cursor)]_caVars

\* When Up and Down pass over empty filters, they never stop at one, but for the
\* favourites.
NoEmptyFilter ==
  [][(sortMode = 1 /\ filter' # filter /\ used' = used) =>
       filter' = 0 \/ ShownGame' # NoEntry]_caVars

\* The four directions lead to a game that is shown, in the order of the list,
\* at both ends of the list and of the alphabet (menuMoveGame, ps5MoveAlphabet).
MovesReachGames == MoveIsNext /\ NoEmptyFilter

\* The carousel shows what it should: its moves and its recent games.
CarouselIsRight == MovesReachGames /\ []RecentIsHistory
=============================================================================
