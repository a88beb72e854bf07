------------------------------ MODULE Settings ------------------------------
(***************************************************************************)
(* Settings: the wallpaper (wallpaper.tsx), the theme (theme.tsx), the      *)
(* appearance and the shell's preferences (appearance.tsx), as SettingsApp,  *)
(* AppearanceSettings and the theme switches change them.                   *)
(*                                                                         *)
(* localStorage and IndexedDB are shared by the browser's tabs.  A tab       *)
(* learns of another's localStorage by an event, of its IndexedDB not at     *)
(* all; transactions on the one object store run in the order they were      *)
(* asked for, and what follows one runs with it.  One number and one switch   *)
(* stand for the shell's preferences.  Left out: what an upload is refused     *)
(* for, messages, and a localStorage that refuses what it is given.           *)
(***************************************************************************)
EXTENDS Integers, Sequences, FiniteSets

CONSTANTS
  BuiltIn,   \* the ids of the built-in wallpapers
  Default,   \* defaultWallpaperId, by theme
  Images,    \* the images a user uploads
  Levels,    \* values of a slider's preference, as stored or set
  LevelRange,     \* of that preference: [min, max]
  MaxOps,    \* bound on the transactions under way
  None

Themes == {"light", "dark"}
WallpaperIds == BuiltIn \cup {"custom"}

VARIABLES
  appearance,     \* localStorage: "macos" or "aura"
  theme,          \* of this document
  storedIds,      \* localStorage: the wallpaper's id by theme; None: nothing valid
  wallpaperId,
  customUrl,      \* the image shown as the custom one, or None
  hasCustom,
  db,             \* IndexedDB: the custom image, or None
  ops,            \* transactions under way, oldest first: [do, image]
  event,          \* a storage event is on its way to this tab
  unsure,         \* ghost: a read failed or another tab changed the image
  rawPrefs,       \* localStorage: [level, compact]; level None: nothing valid
  prefs,          \* this tab's snapshot of it, parsed
  lastSet,        \* ghost: what was last set, by any tab
  asks

wallpaperVars ==
  <<theme, storedIds, wallpaperId, customUrl, hasCustom, db, ops, unsure>>
prefsVars == <<rawPrefs, prefs, lastSet>>
vars == <<appearance, wallpaperVars, event, prefsVars, asks>>

----------------------------------------------------------------------------
readStoredId(ids, t) == IF ids[t] = None THEN Default[t] ELSE ids[t]

Load == [do |-> "load", image |-> None]

(* The change event of the wallpaper: the id is read again, and the image.    *)
onChange(ids, t, waiting) ==
  /\ wallpaperId' = readStoredId(ids, t)
  /\ ops' = Append(waiting, Load)

writeStoredId(id, waiting) ==
  /\ storedIds' = [storedIds EXCEPT ![theme] = id]
  /\ onChange(storedIds', theme, waiting)

Clamp(n) == IF n < LevelRange.min THEN LevelRange.min ELSE IF n > LevelRange.max THEN LevelRange.max ELSE n
ShellDefault == LevelRange.max
parseShellPrefs(raw) ==
  [raw EXCEPT !.level = IF raw.level = None THEN ShellDefault ELSE Clamp(raw.level)]

Asked == asks > 0 /\ asks' = asks - 1
Room == Len(ops) < MaxOps

----------------------------------------------------------------------------
(* A wallpaper is chosen; "custom" only while there is one.                  *)
setWallpaper(id) ==
  /\ Asked /\ Room
  /\ id = "custom" => hasCustom
  /\ writeStoredId(id, ops)
  /\ UNCHANGED <<theme, customUrl, hasCustom, db, unsure, appearance, event, prefsVars>>

(* An upload of an image that is not too large: it is saved first.           *)
Upload(image) ==
  /\ Asked /\ Room
  /\ ops' = Append(ops, [do |-> "save", image |-> image])
  /\ UNCHANGED <<theme, storedIds, wallpaperId, customUrl, hasCustom, db, unsure,
                 appearance, event, prefsVars>>

RemoveCustom ==
  /\ Asked /\ Room
  /\ hasCustom
  /\ ops' = Append(ops, [do |-> "clear", image |-> None])
  /\ UNCHANGED <<theme, storedIds, wallpaperId, customUrl, hasCustom, db, unsure,
                 appearance, event, prefsVars>>

----------------------------------------------------------------------------
(* The oldest transaction runs, and what was waiting for it.                 *)
refreshCustom ==
  /\ Head(ops).do = "load"
  /\ hasCustom' = (db # None) /\ customUrl' = db /\ unsure' = FALSE
  /\ ops' = Tail(ops)
  /\ UNCHANGED <<storedIds, wallpaperId, db>>

setCustomWallpaper ==
  /\ Head(ops).do = "save"
  /\ db' = Head(ops).image
  /\ hasCustom' = TRUE /\ customUrl' = Head(ops).image /\ unsure' = FALSE
  /\ writeStoredId("custom", Tail(ops))

(* The id falls back only for the theme of now.                              *)
\* mutant: the image that was removed stays on
urlKept == customUrl
urlCleared == None
clearCustomWallpaper ==
  /\ Head(ops).do = "clear"
  /\ db' = None
  /\ hasCustom' = FALSE /\ customUrl' = urlCleared /\ unsure' = FALSE
  /\ IF readStoredId(storedIds, theme) = "custom"
     THEN writeStoredId(Default[theme], Tail(ops))
     ELSE ops' = Tail(ops) /\ UNCHANGED <<storedIds, wallpaperId>>

(* A failed read counts as no image; what waits for a failed save or removal  *)
(* is told, or not even that where the transaction is aborted without an error. *)
Failed ==
  /\ ops' = Tail(ops)
  /\ IF Head(ops).do = "load"
     THEN hasCustom' = FALSE /\ customUrl' = None /\ unsure' = TRUE
     ELSE UNCHANGED <<hasCustom, customUrl, unsure>>
  /\ UNCHANGED <<storedIds, wallpaperId, db>>

Transaction ==
  /\ ops # <<>>
  /\ refreshCustom \/ setCustomWallpaper \/ clearCustomWallpaper \/ Failed
  /\ UNCHANGED <<theme, appearance, event, prefsVars, asks>>

----------------------------------------------------------------------------
(* The theme: the wallpaper's id is kept by theme, and read at each change.   *)
\* mutant: the id of the other theme stays on
idStays(t) == wallpaperId
idFor(t) == readStoredId(storedIds, t)
setTheme ==
  /\ Asked
  /\ theme' = IF theme = "dark" THEN "light" ELSE "dark"
  /\ wallpaperId' = idFor(theme')
  /\ UNCHANGED <<storedIds, customUrl, hasCustom, db, ops, unsure,
                 appearance, event, prefsVars>>

(* Changing it mounts the desktop anew: module WebDesktop does both.         *)
setAppearance ==
  /\ Asked
  /\ appearance' = IF appearance = "macos" THEN "aura" ELSE "macos"
  /\ UNCHANGED <<wallpaperVars, event, prefsVars>>

(* A preference of the shell is set over the ones that are stored.            *)
\* mutant: over the ones this tab last saw
seenPrefs == prefs
readPrefs == parseShellPrefs(rawPrefs)

Patches(over) ==
  {[over EXCEPT !.level = n] : n \in Levels \ {None}}
  \cup {[over EXCEPT !.compact = b] : b \in BOOLEAN}
(* The same patch of what was last set.                                      *)
Set(last, over, new) ==
  [level |-> IF new.level # over.level THEN Clamp(new.level) ELSE last.level,
   compact |-> IF new.compact # over.compact THEN new.compact ELSE last.compact]

updatePrefs ==
  /\ Asked /\ appearance = "aura"
  /\ \E new \in Patches(readPrefs) :
       rawPrefs' = new /\ lastSet' = Set(lastSet, readPrefs, new)
  /\ prefs' = parseShellPrefs(rawPrefs')
  /\ UNCHANGED <<appearance, wallpaperVars, event>>

----------------------------------------------------------------------------
(* Another tab, with a theme of its own: it chooses a wallpaper, uploads or    *)
(* removes the image (the browser says nothing of the image, and nothing at   *)
(* all when the stored id stays as it was), or sets a preference.             *)
OtherTab ==
  /\ Asked
  /\ \/ \E t \in Themes, id \in WallpaperIds :
          /\ storedIds' = [storedIds EXCEPT ![t] = id]
          /\ db' \in {db} \cup (IF id = "custom" THEN Images ELSE {None})
          /\ UNCHANGED prefsVars
     \/ /\ LET over == parseShellPrefs(rawPrefs)
           IN \E new \in Patches(over) : rawPrefs' = new /\ lastSet' = Set(lastSet, over, new)
        /\ UNCHANGED <<prefs, storedIds, db>>
  /\ event' = (event \/ storedIds' # storedIds \/ rawPrefs' # rawPrefs)
  /\ unsure' = (unsure \/ db' # db)
  /\ UNCHANGED <<appearance, theme, wallpaperId, customUrl, hasCustom, ops>>

StorageEvent ==
  /\ event /\ event' = FALSE
  /\ Room
  /\ onChange(storedIds, theme, ops)
  /\ prefs' = parseShellPrefs(rawPrefs)
  /\ UNCHANGED <<appearance, theme, storedIds, customUrl, hasCustom, db,
                 unsure, rawPrefs, lastSet, asks>>

----------------------------------------------------------------------------
Init ==
  /\ appearance = "macos" /\ theme \in Themes
  /\ storedIds \in [Themes -> {"custom", None}]
  /\ db \in Images \cup {None}
  /\ wallpaperId = readStoredId(storedIds, theme)
  /\ customUrl = None /\ hasCustom = FALSE
  /\ ops = <<Load>> /\ event = FALSE /\ unsure = FALSE
  /\ rawPrefs \in [level : Levels, compact : {FALSE}]
  /\ prefs = parseShellPrefs(rawPrefs) /\ lastSet = parseShellPrefs(rawPrefs)

(* The wallpapers of the Settings window.                                    *)
WallpaperSection ==
  \/ \E id \in WallpaperIds : setWallpaper(id)
  \/ \E image \in Images : Upload(image)
  \/ RemoveCustom

Next ==
  \/ WallpaperSection \/ Transaction
  \/ setTheme \/ updatePrefs
  \/ OtherTab \/ StorageEvent

----------------------------------------------------------------------------
(* The wallpaper's id is the one stored for the theme on the page, at all      *)
(* times but while another tab's change is on its way.                        *)
IdFollowsStore == ~event => wallpaperId = readStoredId(storedIds, theme)

(* With no transaction under way the image offered is the image stored, also   *)
(* after uploads and removals that overtook each other, unless a read failed    *)
(* or another tab changed it.                                                 *)
ImageIsStored ==
  (ops = <<>> /\ ~unsure) =>
    hasCustom = (db # None) /\ customUrl = db

(* The tabs do not undo each other's preferences: what is stored is, for each,  *)
(* what was last set, kept within its range.                                  *)
LastSetKept == parseShellPrefs(rawPrefs) = lastSet

SettingsInv ==
  /\ wallpaperId \in WallpaperIds /\ (customUrl # None => hasCustom)
  /\ IdFollowsStore /\ ImageIsStored /\ LastSetKept
=============================================================================
