------------------------------- MODULE RegionMaps -------------------------------
(***************************************************************************)
(* The maps of regionmap.js: the editor of one region's area, and the       *)
(* picker of a location that the console and the setup wizard show. The     *)
(* editor keeps its shapes in Terra Draw's store; the form submits a hidden *)
(* field, and only the field outlives a basemap swap. Terra Draw is         *)
(* external. It keeps the outline being drawn in the same store, reports    *)
(* each change of the store, refuses an edit that would cross an edge, and  *)
(* stops by emptying its store.                                             *)
(***************************************************************************)
EXTENDS Basemap, Sequences, SequencesExt

CONSTANTS
    Points,     \* locations on the map
    NoPoint,
    MaxShapes   \* bound: shapes drawn or edited, those stored included

ASSUME RegionAssumption ==
    MaxSwaps \in Nat /\ MaxShapes \in Nat /\ MaxShapes >= 2     \* two may be stored

VARIABLES
    field,      \* the hidden input: NoArea, a Polygon or a MultiPolygon
    built,      \* draw is not null
    store,      \* the finished shapes in Terra Draw's store
    outline,    \* the one being drawn: "none", "plain", "crossed"
    mode,       \* "polygon", "rectangle", "select"
    made,       \* shapes so far; a shape is known by its number
    area,       \* history: the area as the operator finished it
    picked,     \* the picker: the location it reported
    marker      \* the location its layer shows

editorVars == <<field, built, store, outline, mode, made, area>>
pickerVars == <<picked, marker>>
vars == <<basemapVars, editorVars, pickerVars>>

Editor == "editor"
Picker == "picker"
NoArea == [type |-> "none"]
Polygon(s) == [type |-> "Polygon", coordinates |-> s]
MultiPolygon(ss) == [type |-> "MultiPolygon", coordinates |-> ss]

PolygonsOf(geometry) ==
    CASE geometry.type = "Polygon" -> <<geometry.coordinates>>
      [] geometry.type = "MultiPolygon" -> geometry.coordinates
      [] OTHER -> << >>

Serialized(polys) ==
    CASE polys = << >> -> NoArea
      [] Len(polys) = 1 -> Polygon(polys[1])
      [] OTHER -> MultiPolygon(polys)

Init ==
    /\ CreateMaps
    /\ field \in {NoArea, Polygon(1), MultiPolygon(<<1>>), MultiPolygon(<<1, 2>>)}
    /\ built = FALSE /\ store = << >> /\ outline = "none" /\ mode = "select"
    /\ made = Len(PolygonsOf(field)) /\ area = PolygonsOf(field)
    /\ picked \in {NoPoint} \union Points /\ marker = NoPoint

-----------------------------------------------------------------------------
(* The editor's overlays: its shapes go through the field. The field is    *)
(* read before draw.stop(), whose emptied store is serialized in select     *)
(* mode.                                                                    *)

\* Slip: the old editor is stopped before the field is read.
RebuildAfterStop ==
    LET polys == IF built /\ mode = "select" THEN << >> ELSE PolygonsOf(field)
    IN  /\ built' = TRUE
        /\ store' = polys /\ outline' = "none" /\ field' = Serialized(polys)
        /\ mode' = IF polys = << >> THEN "polygon" ELSE "select"
        /\ UNCHANGED <<made, area>>

Rebuild ==
    LET polys == PolygonsOf(field)
    IN  /\ built' = TRUE
        /\ store' = polys /\ outline' = "none" /\ field' = Serialized(polys)
        /\ mode' = IF polys = << >> THEN "polygon" ELSE "select"
        /\ UNCHANGED <<made, area>>

\* Slip: the picker's marker is put back where the page was asked to show it.
MarkPreview == marker' = NoPoint

\* The picker's overlays show the location picked last.
MarkPicked == marker' = picked

Overlays(m) ==
    IF OverlaysRun(m)
    THEN \/ m = Editor /\ Rebuild /\ UNCHANGED pickerVars
         \/ m = Picker /\ MarkPicked /\ UNCHANGED <<picked, editorVars>>
    ELSE UNCHANGED <<editorVars, pickerVars>>

StyleLoads(m) == StyleArrives(m) /\ Overlays(m)

MapLoads(m) == MapOpens(m) /\ Overlays(m)

PressBase(m, b) ==
    /\ SwapStyle(m, b)
    /\ marker' = IF m = Picker THEN NoPoint ELSE marker
    /\ UNCHANGED <<picked, editorVars>>

-----------------------------------------------------------------------------
(* Drawing: the store changes with each corner, the field with none.        *)
HasShape == store # << >> \/ outline # "none"

Corner(o) ==
    /\ built /\ mode \in {"polygon", "rectangle"} /\ made < MaxShapes
    /\ outline' = o /\ (o = "crossed" => mode = "polygon")
    /\ UNCHANGED <<field, built, store, mode, made, area, basemapVars, pickerVars>>

\* Escape drops the outline.
CancelOutline ==
    /\ built /\ outline # "none" /\ outline' = "none"
    /\ UNCHANGED <<field, built, store, mode, made, area, basemapVars, pickerVars>>

\* Slip: the tool that drew stays selected.
FinishStays ==
    /\ outline = "plain" /\ outline' = "none"
    /\ made' = made + 1 /\ store' = Append(store, made')
    /\ area' = Append(area, made') /\ field' = Serialized(store')
    /\ UNCHANGED <<built, mode, basemapVars, pickerVars>>

\* The outline is finished; a crossed one is refused and stays as it is.
Finish ==
    /\ outline = "plain" /\ outline' = "none"
    /\ made' = made + 1 /\ store' = Append(store, made')
    /\ area' = Append(area, made')
    /\ mode' = "select" /\ field' = Serialized(store')
    /\ UNCHANGED <<built, basemapVars, pickerVars>>

\* A press of a tool's button; leaving a drawing mode drops its outline.
SetMode(k) ==
    /\ built /\ IF k = "select" THEN HasShape ELSE ~HasShape
    /\ mode' = k /\ outline' = "none"
    /\ UNCHANGED <<field, built, store, made, area, basemapVars, pickerVars>>

\* A corner is moved, added or removed, or the shape dragged, in select mode.
Edit(n) ==
    /\ built /\ mode = "select" /\ made < MaxShapes
    /\ made' = made + 1
    /\ store' = [store EXCEPT ![n] = made'] /\ area' = [area EXCEPT ![n] = made']
    /\ field' = Serialized(store')
    /\ UNCHANGED <<built, outline, mode, basemapVars, pickerVars>>

\* The Delete key removes the shape that is selected.
Delete(n) ==
    /\ built /\ mode = "select"
    /\ store' = RemoveAt(store, n) /\ area' = RemoveAt(area, n)
    /\ field' = Serialized(store')
    /\ UNCHANGED <<built, outline, mode, made, basemapVars, pickerVars>>

\* "Clear area". While a style loads the adapter has no source to empty and
\* throws, after the store has been emptied: the mode stays.
Clear ==
    /\ built
    /\ store' = << >> /\ outline' = "none" /\ area' = << >>
    /\ field' = IF layers[Editor] \/ mode = "select" THEN NoArea ELSE field
    /\ mode' = IF layers[Editor] THEN "polygon" ELSE mode
    /\ UNCHANGED <<built, made, basemapVars, pickerVars>>

\* A click on the picker: its source is missing while a style loads.
Pick(p) ==
    /\ picked' = p
    /\ marker' = IF layers[Picker] THEN p ELSE marker
    /\ UNCHANGED <<basemapVars, editorVars>>

-----------------------------------------------------------------------------
Next ==
    \/ \E m \in Maps : \/ StyleLoads(m) \/ MapLoads(m)
                       \/ \E b \in Bases : PressBase(m, b)
    \/ \E o \in {"plain", "crossed"} : Corner(o)
    \/ CancelOutline \/ Finish \/ Clear
    \/ \E k \in {"polygon", "rectangle", "select"} : SetMode(k)
    \/ \E n \in DOMAIN store : Edit(n) \/ Delete(n)
    \/ \E p \in Points : Pick(p)

Spec == Init /\ [][Next]_vars

-----------------------------------------------------------------------------
\* The types of the variables; a tool that draws is only on without an area,
\* for a region has one (regionmap.js: sync disables the draw tools).
TypeOK ==
    /\ BasemapTypeOK
    /\ built \in BOOLEAN
    /\ store \in Seq(1..MaxShapes) /\ area \in Seq(1..MaxShapes)
    /\ field.type \in {"none", "Polygon", "MultiPolygon"}
    /\ outline \in {"none", "plain", "crossed"}
    /\ mode \in {"polygon", "rectangle", "select"}
    /\ made \in 0..MaxShapes
    /\ picked \in Points \union {NoPoint} /\ marker \in Points \union {NoPoint}
    /\ mode # "select" => store = << >>
    /\ outline # "none" => mode # "select"

\* What Save would send is the area as the operator last finished it, through
\* every swap of the basemap: neither a half-drawn or crossed outline nor an
\* emptied editor reaches it, and the editor shows the same shapes (overlays,
\* serialize, draw.on).
FieldIsTheArea ==
    /\ PolygonsOf(field) = area
    /\ built => store = area

\* When a map's style is there, so are the page's own layers, and the picker's
\* marker is at the location it reported, a click during the swap included
\* (meshCreateMap's once("style.load"), regionMapView).
OverlaysReturn ==
    \A m \in Maps : opened[m] /\ loaded[m] =>
        layers[m] /\ (m = Picker => marker = picked)

=============================================================================
