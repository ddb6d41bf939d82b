--------------------------------- MODULE Basemap ---------------------------------
(***************************************************************************)
(* The basemap of the application's maps (basemap.js): the dark and light  *)
(* styles, the preference all tabs share, and when a page's overlays are   *)
(* run. MapLibre is external: setStyle drops the page's sources and layers *)
(* at once, "style.load" follows when the new style is there, and "load"   *)
(* comes once, when the first style to arrive has loaded.                   *)
(***************************************************************************)
EXTENDS Naturals

CONSTANTS
    Maps,       \* the maps that are open, each in a tab of its own
    MaxSwaps    \* bound: presses of the switch that swap the style

VARIABLES
    keeps,      \* does localStorage keep what is stored there?
    stored,     \* the preference in localStorage
    shown,      \* of each map: the style it was given last
    loaded,     \* that style has loaded
    opened,     \* "load" has come
    waiting,    \* a once("style.load") handler waits to run the overlays
    layers,     \* the page's sources and layers are on the map
    swaps

basemapVars == <<keeps, stored, shown, loaded, opened, waiting, layers, swaps>>

Bases == {"dark", "light"}

StoredBase == IF keeps THEN stored ELSE "dark"

CreateMaps ==
    /\ keeps \in BOOLEAN /\ stored \in Bases
    /\ shown = [m \in Maps |-> StoredBase]
    /\ loaded = [m \in Maps |-> FALSE] /\ opened = [m \in Maps |-> FALSE]
    /\ waiting = [m \in Maps |-> FALSE] /\ layers = [m \in Maps |-> FALSE]
    /\ swaps = 0

\* A press of the switch: the guard asks the preference, not the map.
SwapStyle(m, b) ==
    /\ swaps < MaxSwaps /\ swaps' = swaps + 1
    /\ StoredBase # b
    /\ stored' = IF keeps THEN b ELSE stored
    /\ shown' = [shown EXCEPT ![m] = b]
    /\ loaded' = [loaded EXCEPT ![m] = FALSE]
    /\ waiting' = [waiting EXCEPT ![m] = TRUE]
    /\ layers' = [layers EXCEPT ![m] = FALSE]
    /\ UNCHANGED <<keeps, opened>>

\* The style arrives. Handlers of earlier presses wait for the same event;
\* after the first has run the others find their sources there.
StyleArrives(m) ==
    /\ ~loaded[m] /\ loaded' = [loaded EXCEPT ![m] = TRUE]
    /\ waiting' = [waiting EXCEPT ![m] = FALSE]
    /\ layers' = [layers EXCEPT ![m] = @ \/ waiting[m]]
    /\ UNCHANGED <<keeps, stored, shown, opened, swaps>>

MapOpens(m) ==
    /\ ~opened[m] /\ loaded[m]
    /\ opened' = [opened EXCEPT ![m] = TRUE]
    /\ layers' = [layers EXCEPT ![m] = TRUE]
    /\ UNCHANGED <<keeps, stored, shown, loaded, waiting, swaps>>

\* The moments at which meshCreateMap calls the page's overlays, and they run
\* to their end: addSource throws when the page's sources are there.
OverlaysRun(m) == layers'[m] /\ ~layers[m]

BasemapTypeOK ==
    /\ keeps \in BOOLEAN /\ stored \in Bases
    /\ shown \in [Maps -> Bases]
    /\ loaded \in [Maps -> BOOLEAN] /\ opened \in [Maps -> BOOLEAN]
    /\ waiting \in [Maps -> BOOLEAN] /\ layers \in [Maps -> BOOLEAN]
    /\ swaps \in 0..MaxSwaps
    /\ \A m \in Maps : layers[m] => loaded[m]

=============================================================================
