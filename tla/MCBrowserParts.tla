--------------------------- MODULE MCBrowserParts ---------------------------
(***************************************************************************)
(* The parts of the browser process that share no state, checked one at a   *)
(* time: part is chosen in the beginning and stays, the variables of the    *)
(* other parts too. Two of them are checked twice: the touch input with two *)
(* fingers over a long time and with three, the session over many tabs and  *)
(* with the pages told apart.                                               *)
(* The store and the session are instances of the modules that hold their    *)
(* theorems, so that BrowserPartsProofs can cite these.                     *)
(***************************************************************************)
EXTENDS Integers

CONSTANTS
  None,
  Memories    \* devices of MemoryGovernor

VARIABLES
  part,
  disk, store,              \* ProfileStore
  raw, gesture, view, mode, \* TouchInput
  saved, chrome, web,       \* BrowserSession
  ui, hist,                 \* ChromeToolbar
  b, glass, motion,         \* ChromePanels
  device, file, run,        \* PanelMapping
  memory, relief            \* MemoryGovernor

storeVars == <<disk, store>>
touchVars == <<raw, gesture, view, mode>>
sessionVars == <<saved, chrome, web>>
barVars == <<ui, hist>>
panelVars == <<b, glass, motion>>
displayVars == <<device, file, run>>
memoryVars == <<memory, relief>>

Store == INSTANCE ProfileStoreProofs WITH
  Profiles <- {1, 2, 3}, Limit <- 2, MaxDamages <- 1, MaxLapses <- 1, LogAlone <- FALSE
Two == INSTANCE TouchInput WITH
  Slots <- {1, 2}, Contacts <- 1..7, Taps <- 2, MaxFrames <- 5, Abrupt <- FALSE
Three == INSTANCE TouchInput WITH
  Slots <- {1, 2, 3}, Contacts <- 1..9, Taps <- 1, MaxFrames <- 3, Abrupt <- FALSE
Tabs == INSTANCE BrowserSessionProofs WITH
  Pages <- {1}, MaxTabs <- 2, MaxIds <- 3, MaxFaults <- 1
Recovery == INSTANCE BrowserSessionProofs WITH
  Pages <- {1, 2}, MaxTabs <- 1, MaxIds <- 2, MaxFaults <- 1
Bar == INSTANCE ChromeToolbar
Panels == INSTANCE ChromePanels WITH
  Devices <- {[screen |-> [w |-> 280, h |-> 936], guest |-> FALSE],
              [screen |-> [w |-> 936, h |-> 280], guest |-> TRUE]},
  MaxTabs <- 5, MaxChanges <- 1

(* Devices for PanelMapping. Where the kernel's mode is read: debugfs, the      *)
(* second of the usual connectors, or another one after one in no known state. *)
Size(w, h) == [w |-> w, h |-> h]
NoModes == [debugfs |-> None, known |-> <<None, None>>, others |-> << >>]
Debugfs(w, h) == [NoModes EXCEPT !.debugfs = Size(w, h)]
Listed(w, h) == [NoModes EXCEPT !.known = <<None, Size(w, h)>>]
Other(w, h) ==
  [NoModes EXCEPT !.others = <<[status |-> "unknown", mode |-> Size(64, 64)],
                               [status |-> "connected", mode |-> Size(w, h)]>>]

Cfg(w, h, direction, video, touch, dx, dy) ==
  [width |-> w, height |-> h, direction |-> direction, video |-> video, touch |-> touch,
   touchOffsetX |-> dx, touchOffsetY |-> dy, touchDevice |-> "touch panel"]

(* A device with a w x h display; its touch panel skips dy values.              *)
Device(w, h, kernel, cfg, dom, env, dy, tp) ==
  [mode |-> Size(w, h), kernel |-> kernel, cfg |-> cfg, dom |-> dom, env |-> env, tp |-> tp,
   sku |-> [panelSize |-> Size(960, 266), drmMode |-> Size(480, 960), rotation |-> 270],
   abs |-> [x1 |-> 0, x2 |-> w - 1, y1 |-> 0, y2 |-> h - 1 + dy]]

Displays == {
  Device(480, 960, Debugfs(480, 960), Cfg(266, 960, 270, 270, 270, 107, None), Size(960, 266), None, 0, 0),
  Device(280, 936, Listed(280, 936), Cfg(936, 280, -90, None, None, None, None), Size(936, 280), None, 0, 0),
  Device(568, 1210, Other(568, 1210), Cfg(568, 1210, 180, 90, 180, None, None), Size(568, 1210), None, 0, 0),
  Device(280, 936, Listed(280, 936), Cfg(280, 936, 90, None, None, None, 24), Size(936, 280), None, 24, 0),
  Device(480, 960, Debugfs(480, 960), Cfg(960, 266, 90, 90, 270, None, None), Size(960, 266), None, 0, 180),
  Device(480, 960, NoModes, None, Size(960, 266), Size(960, 266), 0, 0),
  Device(280, 936, Debugfs(280, 936), None, Size(936, 280), None, 0, 0),
  Device(1080, 1920, Debugfs(1080, 1920),
         [Cfg(None, None, 0, None, None, None, None) EXCEPT !.touchDevice = None],
         None, Size(1080, 1920), 0, 0)}

Display == INSTANCE PanelMapping WITH Devices <- Displays

(* A device of each profile, one without swap, one with little of it. What may be *)
(* free lies at and beside the thresholds, and once meminfo cannot be read.    *)
Memory(total, swap, free) == [total |-> total, swap |-> swap, free |-> free]
SomeMemories == {
  Memory(2097152, 524288,
    {<<131072, 400000>>, <<293601, 400000>>, <<314573, 209715>>, <<314573, 400000>>,
     <<419430, 209716>>, <<1000000, 400000>>, <<400000, 65537>>}),
  Memory(1024000, 524288,
    {<<0, 65537>>, <<102400, 400000>>, <<143360, 400000>>, <<400000, 65536>>, <<196608, 262144>>,
     <<143361, 209715>>, <<400000, 157286>>, <<400000, 131073>>, <<262145, 209716>>,
     <<400000, 400000>>}),
  Memory(524288, 0,
    {<<62915, 0>>, <<83887, 0>>, <<104857, 0>>, <<125829, 0>>, <<131073, 0>>, <<196608, 0>>,
     <<262145, 0>>}),
  Memory(1024000, 102400,
    {<<102401, 102400>>, <<262144, 65537>>, <<262145, 102400>>, <<400000, 30720>>})}

Gov == INSTANCE MemoryGovernor WITH Devices <- Memories

NoStore == disk = None /\ store = None
NoTouch == raw = None /\ gesture = None /\ view = None /\ mode = None
NoTabs == saved = None /\ chrome = None /\ web = None
NoBar == ui = None /\ hist = None
NoPanels == b = None /\ glass = None /\ motion = None
NoDisplay == device = None /\ file = None /\ run = None
NoMemory == memory = None /\ relief = None

PartsInit ==
  \/ /\ part = "profiles" /\ Store!Init
     /\ NoTouch /\ NoTabs /\ NoBar /\ NoPanels /\ NoDisplay /\ NoMemory
  \/ /\ part = "two fingers" /\ Two!Init
     /\ NoStore /\ NoTabs /\ NoBar /\ NoPanels /\ NoDisplay /\ NoMemory
  \/ /\ part = "three fingers" /\ Three!Init
     /\ NoStore /\ NoTabs /\ NoBar /\ NoPanels /\ NoDisplay /\ NoMemory
  \/ /\ part = "tabs" /\ Tabs!Init
     /\ NoStore /\ NoTouch /\ NoBar /\ NoPanels /\ NoDisplay /\ NoMemory
  \/ /\ part = "recovery" /\ Recovery!Init
     /\ NoStore /\ NoTouch /\ NoBar /\ NoPanels /\ NoDisplay /\ NoMemory
  \/ /\ part = "toolbar" /\ Bar!Init
     /\ NoStore /\ NoTouch /\ NoTabs /\ NoPanels /\ NoDisplay /\ NoMemory
  \/ /\ part = "panels" /\ Panels!Init
     /\ NoStore /\ NoTouch /\ NoTabs /\ NoBar /\ NoDisplay /\ NoMemory
  \/ /\ part = "display" /\ Display!Init
     /\ NoStore /\ NoTouch /\ NoTabs /\ NoBar /\ NoPanels /\ NoMemory
  \/ /\ part = "memory" /\ Gov!Init
     /\ NoStore /\ NoTouch /\ NoTabs /\ NoBar /\ NoPanels /\ NoDisplay

PartsNext ==
  /\ \/ /\ part = "profiles" /\ Store!Next
        /\ UNCHANGED <<touchVars, sessionVars, barVars, panelVars, displayVars, memoryVars>>
     \/ /\ \/ part = "two fingers" /\ Two!Next
           \/ part = "three fingers" /\ Three!Next
        /\ UNCHANGED <<storeVars, sessionVars, barVars, panelVars, displayVars, memoryVars>>
     \/ /\ \/ part = "tabs" /\ Tabs!Next
           \/ part = "recovery" /\ Recovery!Next
        /\ UNCHANGED <<storeVars, touchVars, barVars, panelVars, displayVars, memoryVars>>
     \/ /\ part = "toolbar" /\ Bar!Next
        /\ UNCHANGED <<storeVars, touchVars, sessionVars, panelVars, displayVars, memoryVars>>
     \/ /\ part = "panels" /\ Panels!Next
        /\ UNCHANGED <<storeVars, touchVars, sessionVars, barVars, displayVars, memoryVars>>
     \/ /\ part = "display" /\ Display!Next
        /\ UNCHANGED <<storeVars, touchVars, sessionVars, barVars, panelVars, memoryVars>>
     \/ /\ part = "memory" /\ Gov!Next
        /\ UNCHANGED <<storeVars, touchVars, sessionVars, barVars, panelVars, displayVars>>
  /\ UNCHANGED part

partsVars ==
  <<part, storeVars, touchVars, sessionVars, barVars, panelVars, displayVars, memoryVars>>
PartsSpec == PartsInit /\ [][PartsNext]_partsVars
-----------------------------------------------------------------------------
(* ProfileStore: site data of one profile is never seen by another one. Each   *)
(* of the first properties of a part includes its types.                    *)
ProfilesApart == part = "profiles" => Store!TypeOK /\ Store!ProfilesApart

(* ProfileStore: a damaged database is kept as a whole.                       *)
EvidenceKept == part = "profiles" => Store!EvidenceKept

(* TouchInput: every stream the page sees starts and ends once, and a tap    *)
(* reaches it once.                                                         *)
StreamsWhole ==
  /\ part = "two fingers" => Two!TypeOK /\ Two!StreamsWhole
  /\ part = "three fingers" => Three!TypeOK /\ Three!StreamsWhole

(* BrowserSession: a stored tab goes only when the user closed it.            *)
SessionKept == [][(part \in {"tabs", "recovery"}) => Tabs!StoredTabsStay]_sessionVars

(* BrowserSession: the browser that leaves leaves its tabs in the store.      *)
SessionSaved == part \in {"tabs", "recovery"} => Tabs!TypeOK /\ Tabs!SessionSaved

(* BrowserSession: a page killed for its memory is loaded when the user asks. *)
NoReloadAfterKill == part \in {"tabs", "recovery"} => Tabs!NoReloadAfterKill

(* ChromeToolbar: what is shown of the toolbar is drawn and has its room, and  *)
(* nothing that scrolling asked for outlives a later wish.                   *)
ToolbarHasRoom ==
  part = "toolbar" => Bar!TypeOK /\ Bar!PageUncovered /\ Bar!DrawnAsIs /\ Bar!PendingIsWanted

(* ChromeToolbar: the toolbar comes back after full screen and games.         *)
ToolbarReturns == [][part = "toolbar" => Bar!GivesBack]_barVars

(* ChromePanels: what is drawn is what a tap on it does, and the lists of       *)
(* records show what is in the store.                                        *)
TapsAsDrawn == part = "panels" => Panels!TypeOK /\ Panels!AsDrawn /\ Panels!RowsStored

(* PanelMapping: in every mode the picture lies as the display does, a finger    *)
(* on it reaches the pixel it is on, and a video and a finger on it are where   *)
(* the page was told that they are.                                          *)
PanelAgrees == part = "display" => Display!TypeOK /\ Display!PanelAgrees

(* MemoryGovernor: pressure is answered at once and its caches trimmed again, it  *)
(* eases slowly, and it ends when memory stays plentiful.                     *)
PressureHandled == part = "memory" => Gov!TypeOK /\ Gov!PressureHandled
=============================================================================
