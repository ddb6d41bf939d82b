------------------------------- MODULE RegionProofs -------------------------------
(***************************************************************************)
(* What is proved of RegionMaps, for any maps, any number of shapes and of *)
(* basemap swaps: the field is the area that was drawn, and the overlays    *)
(* return.                                                                  *)
(***************************************************************************)
EXTENDS RegionMaps, TLAPS

Shapes == 1..MaxShapes

\* An outline is only there in an editor that is built, with a number left.
Drawing == outline # "none" => built /\ made < MaxShapes

\* A map that has opened and whose style is on its way will run its overlays;
\* the picker's layer shows what was picked whenever it is there.
Overlaid ==
    \A m \in Maps :
        /\ opened[m] /\ ~loaded[m] => waiting[m]
        /\ opened[m] /\ loaded[m] => layers[m]
        /\ m = Picker /\ layers[m] => marker = picked

IInv == TypeOK /\ FieldIsTheArea /\ Drawing /\ Overlaid

-----------------------------------------------------------------------------
(* What serialize() writes, overlays() reads back as it was.                *)

\* The shapes read from the field that was written from them are the same ones.
LEMMA ReadsBack ==
    ASSUME NEW S, NEW polys \in Seq(S)
    PROVE  /\ PolygonsOf(Serialized(polys)) = polys
           /\ Serialized(polys).type \in {"none", "Polygon", "MultiPolygon"}
<1>1. CASE polys = << >>
  BY <1>1 DEF PolygonsOf, Serialized, NoArea
<1>2. CASE polys # << >> /\ Len(polys) = 1
  <2>1. Serialized(polys) = Polygon(polys[1])
    BY <1>2 DEF Serialized
  <2>2. PolygonsOf(Polygon(polys[1])) = <<polys[1]>>
    BY DEF PolygonsOf, Polygon
  <2>3. polys = <<polys[1]>>
    BY <1>2
  <2> QED
    BY <2>1, <2>2, <2>3 DEF Polygon
<1>3. CASE polys # << >> /\ Len(polys) # 1
  <2>1. Serialized(polys) = MultiPolygon(polys)
    BY <1>3 DEF Serialized
  <2> QED
    BY <2>1 DEF PolygonsOf, MultiPolygon
<1> QED
  BY <1>1, <1>2, <1>3

\* Taking one shape out of a list leaves a list of shapes.
LEMMA RemovalType ==
    ASSUME NEW S, NEW s \in Seq(S), NEW n \in DOMAIN s
    PROVE  RemoveAt(s, n) \in Seq(S)
<1>1. SubSeq(s, 1, n - 1) \in Seq(S)
  OBVIOUS
<1>2. SubSeq(s, n + 1, Len(s)) \in Seq(S)
  OBVIOUS
<1> QED
  BY <1>1, <1>2 DEF RemoveAt

-----------------------------------------------------------------------------
\* The first pages satisfy the invariant, with an area stored or without.
LEMMA InitInv == Init => IInv
<1> SUFFICES ASSUME Init PROVE IInv
  OBVIOUS
<1> USE RegionAssumption
<1>1. field.type \in {"none", "Polygon", "MultiPolygon"}
  BY DEF Init, NoArea, Polygon, MultiPolygon
<1>2. PolygonsOf(field) \in Seq(Shapes) /\ Len(PolygonsOf(field)) \in 0..MaxShapes
  <2>1. CASE field = NoArea
    <3>1. PolygonsOf(field) = << >>
      BY <2>1 DEF PolygonsOf, NoArea
    <3> QED
      BY <3>1 DEF Shapes, RegionAssumption
  <2>2. CASE field = Polygon(1)
    <3>1. PolygonsOf(field) = <<1>>
      BY <2>2 DEF PolygonsOf, Polygon
    <3> QED
      BY <3>1 DEF Shapes, RegionAssumption
  <2>3. CASE field = MultiPolygon(<<1>>)
    <3>1. PolygonsOf(field) = <<1>>
      BY <2>3 DEF PolygonsOf, MultiPolygon
    <3> QED
      BY <3>1 DEF Shapes, RegionAssumption
  <2>4. CASE field = MultiPolygon(<<1, 2>>)
    <3>1. PolygonsOf(field) = <<1, 2>>
      BY <2>4 DEF PolygonsOf, MultiPolygon
    <3> QED
      BY <3>1 DEF Shapes, RegionAssumption
  <2> QED
    BY <2>1, <2>2, <2>3, <2>4 DEF Init
<1>3. TypeOK
  <2>1. BasemapTypeOK
    BY DEF Init, CreateMaps, StoredBase, Bases, BasemapTypeOK, RegionAssumption
  <2>2. store \in Seq(Shapes) /\ area \in Seq(Shapes) /\ made \in 0..MaxShapes
    BY <1>2 DEF Init
  <2> QED
    BY <1>1, <2>1, <2>2 DEF Init, TypeOK, Shapes
<1>4. FieldIsTheArea /\ Drawing /\ Overlaid
  BY DEF Init, CreateMaps, FieldIsTheArea, Drawing, Overlaid
<1> QED
  BY <1>3, <1>4 DEF IInv

-----------------------------------------------------------------------------
(* The editor's part of the invariant, and the part of the maps.            *)
Edited ==
    /\ built \in BOOLEAN
    /\ store \in Seq(Shapes) /\ area \in Seq(Shapes)
    /\ field.type \in {"none", "Polygon", "MultiPolygon"}
    /\ outline \in {"none", "plain", "crossed"}
    /\ mode \in {"polygon", "rectangle", "select"}
    /\ made \in 0..MaxShapes
    /\ mode # "select" => store = << >>
    /\ outline # "none" => mode # "select"
    /\ FieldIsTheArea /\ Drawing

Mapped ==
    /\ BasemapTypeOK
    /\ picked \in Points \union {NoPoint} /\ marker \in Points \union {NoPoint}
    /\ Overlaid

LEMMA Parts == IInv <=> Edited /\ Mapped
  BY DEF IInv, Edited, Mapped, TypeOK, Shapes

LEMMA EditorRests == Edited /\ UNCHANGED editorVars => Edited'
  BY DEF Edited, editorVars, FieldIsTheArea, Drawing

LEMMA MapsRest == Mapped /\ UNCHANGED <<basemapVars, pickerVars>> => Mapped'
  BY DEF Mapped, basemapVars, pickerVars, BasemapTypeOK, Bases, Overlaid

\* Building the editor again shows the area, and writes it back as it was.
LEMMA RebuildStep == Edited /\ Rebuild => Edited'
<1> SUFFICES ASSUME Edited, Rebuild PROVE Edited'
  OBVIOUS
<1>1. PolygonsOf(field) = area /\ area \in Seq(Shapes)
  BY DEF Edited, FieldIsTheArea
<1>2. /\ PolygonsOf(field') = area
      /\ field'.type \in {"none", "Polygon", "MultiPolygon"}
  BY <1>1, ReadsBack DEF Rebuild
<1>3. built' = TRUE /\ store' = area /\ outline' = "none" /\ made' = made /\ area' = area
  BY <1>1 DEF Rebuild
<1>4. /\ mode' \in {"polygon", "rectangle", "select"}
      /\ mode' # "select" => store' = << >>
  BY <1>1 DEF Rebuild
<1> QED
  BY <1>1, <1>2, <1>3, <1>4 DEF Edited, FieldIsTheArea, Drawing

\* A change of the store in select mode is a change of the area and the field.
LEMMA StoreStep ==
    ASSUME Edited, built, mode' = "select", outline' = "none", built' = built,
           store' \in Seq(Shapes), area' = store', field' = Serialized(store'),
           made' \in 0..MaxShapes
    PROVE  Edited'
<1>1. /\ PolygonsOf(field') = store'
      /\ field'.type \in {"none", "Polygon", "MultiPolygon"}
  BY ReadsBack
<1> QED
  BY <1>1 DEF Edited, FieldIsTheArea, Drawing

LEMMA FinishStep == Edited /\ Finish => Edited'
<1> SUFFICES ASSUME Edited, Finish PROVE Edited'
  OBVIOUS
<1>1. built /\ made < MaxShapes /\ store = area /\ made \in Nat
  BY RegionAssumption DEF Edited, Finish, Drawing, FieldIsTheArea
<1>2. made + 1 \in Shapes
  BY <1>1, RegionAssumption DEF Shapes
<1>3. made' = made + 1 /\ store' = Append(store, made + 1) /\ area' = Append(area, made + 1)
  BY DEF Finish
<1>4. store' \in Seq(Shapes) /\ area' = store' /\ made' \in 0..MaxShapes
  BY <1>1, <1>2, <1>3, RegionAssumption DEF Edited, Shapes
<1> QED
  BY <1>1, <1>4, StoreStep DEF Finish

LEMMA EditStep == \A n \in DOMAIN store : Edited /\ Edit(n) => Edited'
<1> SUFFICES ASSUME NEW n \in DOMAIN store, Edited, Edit(n) PROVE Edited'
  OBVIOUS
<1>1. built /\ mode = "select" /\ outline = "none" /\ store = area
  BY DEF Edited, Edit, FieldIsTheArea
<1>2. made + 1 \in Shapes /\ made' = made + 1 /\ made' \in 0..MaxShapes
  BY RegionAssumption DEF Edited, Edit, Shapes
<1>3. store' = [store EXCEPT ![n] = made + 1] /\ area' = [area EXCEPT ![n] = made + 1]
  BY <1>2 DEF Edit
<1>4. store' \in Seq(Shapes) /\ area' = store'
  BY <1>1, <1>2, <1>3 DEF Edited
<1> QED
  BY <1>1, <1>2, <1>4, StoreStep DEF Edit

LEMMA DeleteStep == \A n \in DOMAIN store : Edited /\ Delete(n) => Edited'
<1> SUFFICES ASSUME NEW n \in DOMAIN store, Edited, Delete(n) PROVE Edited'
  OBVIOUS
<1>1. built /\ mode = "select" /\ outline = "none" /\ store = area /\ made' \in 0..MaxShapes
  BY DEF Edited, Delete, FieldIsTheArea
<1>2. store' \in Seq(Shapes) /\ area' = store'
  BY <1>1, RemovalType DEF Edited, Delete
<1> QED
  BY <1>1, <1>2, StoreStep DEF Delete

\* Emptied by the button: where the field is left alone, there was no area.
LEMMA ClearStep == Edited /\ Clear => Edited'
<1> SUFFICES ASSUME Edited, Clear PROVE Edited'
  OBVIOUS
<1>1. store' = << >> /\ area' = << >> /\ outline' = "none" /\ built' = built /\ made' = made
  BY DEF Clear
<1>2. PolygonsOf(field') = << >> /\ field'.type \in {"none", "Polygon", "MultiPolygon"}
  <2>1. CASE field' = NoArea
    BY <2>1 DEF NoArea, PolygonsOf
  <2>2. CASE field' # NoArea
    <3>1. field' = field /\ mode # "select" /\ built
      BY <2>2 DEF Clear
    <3>2. area = << >>
      BY <3>1 DEF Edited, FieldIsTheArea
    <3> QED
      BY <3>1, <3>2 DEF Edited, FieldIsTheArea
  <2> QED
    BY <2>1, <2>2
<1>3. mode' \in {"polygon", "rectangle", "select"}
  BY DEF Clear, Edited
<1> QED
  BY <1>1, <1>2, <1>3 DEF Edited, FieldIsTheArea, Drawing

LEMMA DrawStep ==
    Edited /\ ((\E o \in {"plain", "crossed"} : Corner(o)) \/ CancelOutline
               \/ (\E k \in {"polygon", "rectangle", "select"} : SetMode(k))) => Edited'
<1> SUFFICES ASSUME Edited PROVE
        (\E o \in {"plain", "crossed"} : Corner(o)) \/ CancelOutline
            \/ (\E k \in {"polygon", "rectangle", "select"} : SetMode(k)) => Edited'
  OBVIOUS
<1>1. ASSUME NEW o \in {"plain", "crossed"}, Corner(o) PROVE Edited'
  BY <1>1 DEF Corner, Edited, FieldIsTheArea, Drawing
<1>2. ASSUME CancelOutline PROVE Edited'
  BY <1>2 DEF CancelOutline, Edited, FieldIsTheArea, Drawing
<1>3. ASSUME NEW k \in {"polygon", "rectangle", "select"}, SetMode(k) PROVE Edited'
  BY <1>3 DEF SetMode, HasShape, Edited, FieldIsTheArea, Drawing
<1> QED
  BY <1>1, <1>2, <1>3

-----------------------------------------------------------------------------
\* A style that is swapped away takes the layers and leaves a waiting handler.
LEMMA PressStep ==
    \A m \in Maps, b \in Bases : Mapped /\ PressBase(m, b) => Mapped'
<1> SUFFICES ASSUME NEW m \in Maps, NEW b \in Bases, Mapped, PressBase(m, b) PROVE Mapped'
  OBVIOUS
<1>1. BasemapTypeOK'
  BY RegionAssumption DEF Mapped, BasemapTypeOK, PressBase, SwapStyle
<1>2. picked' \in Points \union {NoPoint} /\ marker' \in Points \union {NoPoint}
  BY DEF Mapped, PressBase
<1>3. Overlaid'
  BY DEF Mapped, BasemapTypeOK, Overlaid, PressBase, SwapStyle
<1> QED
  BY <1>1, <1>2, <1>3 DEF Mapped

\* The overlays run when a map's style arrives and when it opens; between them,
\* no map whose style is there is left without.
LEMMA ArrivalStep ==
    \A m \in Maps : Mapped /\ (StyleArrives(m) \/ MapOpens(m)) /\ Overlays(m) => Mapped'
<1> SUFFICES ASSUME NEW m \in Maps, Mapped, StyleArrives(m) \/ MapOpens(m), Overlays(m)
             PROVE  Mapped'
  OBVIOUS
<1>1. BasemapTypeOK'
  <2>1. CASE StyleArrives(m)
    BY <2>1 DEF Mapped, BasemapTypeOK, StyleArrives
  <2>2. CASE MapOpens(m)
    BY <2>2 DEF Mapped, BasemapTypeOK, MapOpens
  <2> QED
    BY <2>1, <2>2
<1>2. /\ picked' = picked
      /\ marker' = marker \/ (m = Picker /\ marker' = picked)
      /\ m = Picker /\ layers'[m] /\ ~layers[m] => marker' = picked
  BY DEF Overlays, OverlaysRun, MarkPicked, pickerVars, Editor, Picker
<1>3. Overlaid'
  <2>1. CASE StyleArrives(m)
    BY <1>2, <2>1 DEF Mapped, BasemapTypeOK, Overlaid, StyleArrives
  <2>2. CASE MapOpens(m)
    BY <1>2, <2>2 DEF Mapped, BasemapTypeOK, Overlaid, MapOpens
  <2> QED
    BY <2>1, <2>2
<1> QED
  BY <1>1, <1>2, <1>3 DEF Mapped

LEMMA PickStep == \A p \in Points : Mapped /\ Pick(p) => Mapped'
  BY DEF Mapped, Pick, basemapVars, BasemapTypeOK, Bases, Overlaid, Picker

-----------------------------------------------------------------------------
\* Every step keeps the invariant: the editor's part by what the step does to the
\* shapes, the maps' part by what it does to styles and layers.
LEMMA NextInv == IInv /\ [Next]_vars => IInv'
<1> SUFFICES ASSUME Edited, Mapped, [Next]_vars PROVE Edited' /\ Mapped'
  BY Parts, PTL
<1>1. ASSUME NEW m \in Maps, StyleLoads(m) \/ MapLoads(m) PROVE Edited' /\ Mapped'
  <2>1. Overlays(m) /\ (StyleArrives(m) \/ MapOpens(m))
    BY <1>1 DEF StyleLoads, MapLoads
  <2>2. Rebuild \/ UNCHANGED editorVars
    BY <2>1 DEF Overlays, editorVars
  <2> QED
    BY <2>1, <2>2, RebuildStep, EditorRests, ArrivalStep
<1>2. ASSUME NEW m \in Maps, NEW b \in Bases, PressBase(m, b) PROVE Edited' /\ Mapped'
  <2>1. UNCHANGED editorVars
    BY <1>2 DEF PressBase
  <2> QED
    BY <1>2, <2>1, EditorRests, PressStep
<1>3. ASSUME \/ \E o \in {"plain", "crossed"} : Corner(o)
             \/ CancelOutline \/ Finish \/ Clear
             \/ \E k \in {"polygon", "rectangle", "select"} : SetMode(k)
             \/ \E n \in DOMAIN store : Edit(n) \/ Delete(n)
      PROVE  Edited' /\ Mapped'
  <2>1. UNCHANGED <<basemapVars, pickerVars>>
    BY <1>3 DEF Corner, CancelOutline, Finish, Clear, SetMode, Edit, Delete
  <2>2. Edited'
    BY <1>3, DrawStep, FinishStep, ClearStep, EditStep, DeleteStep
  <2> QED
    BY <2>1, <2>2, MapsRest
<1>4. ASSUME NEW p \in Points, Pick(p) PROVE Edited' /\ Mapped'
  <2>1. UNCHANGED editorVars
    BY <1>4 DEF Pick
  <2> QED
    BY <1>4, <2>1, EditorRests, PickStep
<1>5. ASSUME UNCHANGED vars PROVE Edited' /\ Mapped'
  BY <1>5, EditorRests, MapsRest DEF vars
<1> QED
  BY <1>1, <1>2, <1>3, <1>4, <1>5 DEF Next

LEMMA Invariance == Spec => []IInv
  BY InitInv, NextInv, PTL DEF Spec

\* The editor, its field and the maps keep their types, and a tool that draws is
\* only on without an area, for any number of shapes and swaps.
THEOREM TypeCorrect == Spec => []TypeOK
<1>1. IInv => TypeOK
  BY DEF IInv
<1> QED
  BY <1>1, Invariance, PTL

\* What Save would send is the area as the operator last finished it.
THEOREM FieldHolds == Spec => []FieldIsTheArea
<1>1. IInv => FieldIsTheArea
  BY DEF IInv
<1> QED
  BY <1>1, Invariance, PTL

\* A map whose style is there has the page's layers, and the picker's marker is
\* where the operator put it.
THEOREM OverlaysAreBack == Spec => []OverlaysReturn
<1>1. IInv => OverlaysReturn
  BY DEF IInv, Overlaid, OverlaysReturn
<1> QED
  BY <1>1, Invariance, PTL

=============================================================================
