----------------------------- MODULE SceneBuild ----------------------------
(***************************************************************************)
(* modules/scenegen/build_world.py: from the buildings of a scene to the   *)
(* mesh, the surface that localization reads, and what stands on them.     *)
(* The ground is a strip of cells, of which the scene's square holds some; *)
(* a footprint is an interval of cells, and a level a surface over each.   *)
(***************************************************************************)
EXTENDS Integers, FiniteSets, FiniteSetsExt, Sequences, SequencesExt, Functions

CONSTANT Width \* the cells of the square

VARIABLES
  layout, \* the ground, the buildings and the names that the scene holds
  placed, \* the buildings kept: clipped, grounded, with their levels
  merge,  \* the forest of cluster_buildings, and the pairs yet to compare
  roofs,  \* the mesh: a surface over one cell, and the building it is of
  shapes, \* the viewer's file: the pieces of a building's roof, numbered
  surface, \* the surface file: a height over one cell
  stands, \* the height of what stands in a cell, on a building or not
  names,  \* the names of targets given out so far, in order
  step    \* "place", "merge", "world", "names" or "built"

Square == 1 .. Width
Cells == 0 .. Width + 1
Interval(a, b) == a .. b

(* A box, a taller one, floors over one another, one floor, and a model.   *)
Forms == {
  [extruded |-> TRUE, height |-> 1, levels |-> {}, model |-> FALSE],
  [extruded |-> TRUE, height |-> 3, levels |-> {}, model |-> FALSE],
  [extruded |-> TRUE, height |-> 1, levels |-> {2, 4}, model |-> FALSE],
  [extruded |-> FALSE, height |-> 1, levels |-> {3}, model |-> FALSE],
  [extruded |-> TRUE, height |-> 2, levels |-> {}, model |-> TRUE]}
Footprints ==
  {Interval(1, 2), Interval(2, 3), Interval(1, Width), Interval(Width, Width + 1),
   {Width + 1}}
Grounds == {[c \in Cells |-> 0], [c \in Cells |-> IF c = 2 THEN 1 ELSE c]}
Box == CHOOSE form \in Forms : form.height = 1 /\ form.extruded /\ form.levels = {}
TargetNames == {<<"casualty", "a">>, <<"a">>, <<"casualty", "a", 2>>}

Buildings == 1 .. 3
NoParent == [b \in {} |-> b]

BuildInit ==
  /\ \E ground \in Grounds :
       \/ /\ \E one, two \in [cells : Footprints, form : Forms],
               three \in {[cells |-> Interval(2, 3), form |-> form] : form \in Forms} :
               layout = [ground |-> ground, buildings |-> <<one, two, three>>,
                         targets |-> <<<<"a">>>>]
       \/ \E targets \in [1 .. 3 -> TargetNames] :
            layout = [ground |-> ground,
                      buildings |-> [b \in Buildings |-> [cells |-> Interval(1, 2), form |-> Box]],
                      targets |-> targets]
  /\ placed = NoParent /\ merge = [parent |-> NoParent, pairs |-> {}]
  /\ roofs = {} /\ shapes = {} /\ surface = {} /\ stands = NoParent /\ names = <<>> /\ step = "place"

Ground(c) == layout.ground[c]

-----------------------------------------------------------------------------
(***************************************************************************)
(* place_buildings: clipped to the square, and stood on the lowest ground  *)
(* under the ends and the middle.                                          *)
(***************************************************************************)
Samples(cells) == {Min(cells), Max(cells), (Min(cells) + Max(cells)) \div 2}
Levels(form, base) == IF form.levels # {} THEN form.levels ELSE {base + form.height}
Clipped(b) == layout.buildings[b].cells \cap Square
Place ==
  /\ step = "place" /\ step' = "merge"
  /\ placed' = [b \in {x \in Buildings : Clipped(x) # {}} |->
       LET base == Min({Ground(c) : c \in Samples(Clipped(b))})
           form == layout.buildings[b].form
       IN [cells |-> Clipped(b), base |-> base, levels |-> Levels(form, base),
           extruded |-> form.extruded, model |-> form.model]]
  /\ LET meshed == {b \in DOMAIN placed' : ~placed'[b].model}
     IN merge' = [parent |-> [b \in meshed |-> b],
                  pairs |-> {p \in meshed \X meshed : p[1] < p[2]}]
  /\ UNCHANGED <<layout, roofs, shapes, surface, stands, names>>

Top(b) == Max(placed[b].levels)
Merges(b) == placed[b].extruded /\ Cardinality(placed[b].levels) = 1
Overlap(a, b) == placed[a].cells \cap placed[b].cells # {}

(***************************************************************************)
(* cluster_buildings: one pair after another, in order.                    *)
(***************************************************************************)
Root(b) ==
  LET climb[n \in 0 .. Cardinality(Buildings)] ==
        IF n = 0 THEN b ELSE merge.parent[climb[n - 1]]
  IN climb[Cardinality(Buildings)]
FirstPair ==
  CHOOSE p \in merge.pairs : \A q \in merge.pairs :
    p[1] < q[1] \/ (p[1] = q[1] /\ p[2] <= q[2])
(* A mutant: the parent is changed, and not the root's.                    *)
UnitedBelow(a, b) == [merge.parent EXCEPT ![a] = Root(b)]
United(a, b) == [merge.parent EXCEPT ![Root(a)] = Root(b)]
Compare ==
  /\ step = "merge" /\ merge.pairs # {}
  /\ LET a == FirstPair[1]
         b == FirstPair[2]
     IN merge' = [parent |-> IF Merges(a) /\ Merges(b) /\ Overlap(a, b)
                             THEN United(a, b) ELSE merge.parent,
                  pairs |-> merge.pairs \ {FirstPair}]
  /\ UNCHANGED <<layout, placed, roofs, shapes, surface, stands, names, step>>

(* Each roof is cut by the roofs that come later in its cluster.           *)
Later(a, b) == Top(a) > Top(b) \/ (Top(a) = Top(b) /\ a > b)
Cluster(b) == {m \in DOMAIN merge.parent : Root(m) = Root(b)}
Exposed(b) == placed[b].cells \ UNION {placed[m].cells : m \in {x \in Cluster(b) : Later(x, b)}}
RoofsOf(b) == {[of |-> b, cell |-> c, z |-> z] : c \in Exposed(b), z \in placed[b].levels}
SurfaceOf(b) == {[cell |-> c, z |-> z] : c \in placed[b].cells, z \in placed[b].levels}

(* The payload for a viewer: what is left of a roof, piece by piece.       *)
Pieces(cells) ==
  {Interval(p[1], p[2]) : p \in {q \in cells \X cells :
     Interval(q[1], q[2]) \subseteq cells /\ q[1] <= q[2] /\ {q[1] - 1, q[2] + 1} \cap cells = {}}}
ShapesOf(b) ==
  {[of |-> b, number |-> Cardinality({q \in Pieces(Exposed(b)) : Min(q) <= Min(piece)}), cells |-> piece] :
     piece \in Pieces(Exposed(b))}

Cut ==
  /\ step = "merge" /\ merge.pairs = {} /\ step' = "world"
  /\ roofs' = UNION {RoofsOf(b) : b \in DOMAIN merge.parent}
  /\ shapes' = UNION {ShapesOf(b) : b \in DOMAIN merge.parent}
  /\ surface' = UNION {SurfaceOf(b) : b \in DOMAIN placed}
  /\ UNCHANGED <<layout, placed, merge, stands, names>>

-----------------------------------------------------------------------------
(***************************************************************************)
(* build_world_sdf: what stands where.                                     *)
(***************************************************************************)
Over(c) == {b \in DOMAIN placed : c \in placed[b].cells}
Floor(c, onBuilding) ==
  IF onBuilding /\ Over(c) # {} THEN Max({Top(b) : b \in Over(c)}) ELSE Ground(c)
TreeKept(c) == c \in Square /\ Over(c) = {}
Rim(c) == {c - 1, c, c + 1} \cap Cells
Disk(c) == Max({Floor(r, TRUE) : r \in Rim(c)})
World ==
  /\ step = "world" /\ step' = "names"
  /\ stands' = [c \in Cells |->
       [low |-> Floor(c, FALSE), high |-> Floor(c, TRUE),
        tree |-> TreeKept(c), disk |-> Disk(c)]]
  /\ UNCHANGED <<layout, placed, merge, roofs, shapes, surface, names>>

(* build_target_scenario: a name that is taken gets the first free number. *)
Scoreable(name) == IF name[1] = "casualty" THEN name ELSE <<"casualty">> \o name
FreeNumber(base) ==
  Min({n \in 2 .. 2 + Len(layout.targets) : Append(base, n) \notin Range(names)})
Given(base) == IF base \notin Range(names) THEN base ELSE Append(base, FreeNumber(base))
Name ==
  /\ step = "names" /\ Len(names) < Len(layout.targets)
  /\ names' = Append(names, Given(Scoreable(layout.targets[Len(names) + 1])))
  /\ UNCHANGED <<layout, placed, merge, roofs, shapes, surface, stands, step>>
Built ==
  /\ step = "names" /\ Len(names) = Len(layout.targets) /\ step' = "built"
  /\ UNCHANGED <<layout, placed, merge, roofs, shapes, surface, stands, names>>

BuildNext == Place \/ Compare \/ Cut \/ World \/ Name \/ Built

-----------------------------------------------------------------------------
(***************************************************************************)
(* Properties, of what was built                                           *)
(***************************************************************************)
Boxes == {b \in DOMAIN placed : Merges(b) /\ ~placed[b].model}
BuriedAt(c) == \E b \in Over(c) : Top(b) < Ground(c)

(* Over every point of the boxes there is one roof, of the tallest there.  *)
OneRoof ==
  \A c \in Square :
    LET boxes == {b \in Boxes : c \in placed[b].cells}
    IN boxes # {} =>
       {r.z : r \in {x \in roofs : x.cell = c /\ x.of \in Boxes}} = {Max({Top(b) : b \in boxes})}
       /\ Cardinality({x \in roofs : x.cell = c /\ x.of \in Boxes}) = 1

(* From above, the surface file shows what the mesh shows.                 *)
SurfaceShowsMesh ==
  \A c \in Square :
    (\A b \in Over(c) : ~placed[b].model) =>
      Max({r.z : r \in {x \in roofs : x.cell = c}} \cup {Ground(c)})
        = Max({s.z : s \in {x \in surface : x.cell = c}} \cup {Ground(c)})

(* A viewer draws each point of a roof once, and an id names one shape.    *)
EachShapeOnce ==
  /\ \A r \in roofs : Cardinality({s \in shapes : s.of = r.of /\ r.cell \in s.cells}) = 1
  /\ \A s, t \in shapes : s.of = t.of /\ s.number = t.number => s = t

(* What is placed on a building stands on the highest surface there, the   *)
(* disk over all that is under its rim, and no tree under a building;      *)
(* except where a roof is lower than the ground beside it.                 *)
StandsOnTop ==
  \A c \in Square :
    /\ ~BuriedAt(c) => stands[c].high = Max({s.z : s \in {x \in surface : x.cell = c}} \cup {Ground(c)})
    /\ stands[c].tree => \A s \in surface : s.cell # c
    /\ (\A r \in Rim(c) : ~BuriedAt(r)) =>
         \A s \in surface : s.cell \in Rim(c) => stands[c].disk >= s.z
    /\ (\A r \in Rim(c) : ~BuriedAt(r)) => \A r \in Rim(c) : stands[c].disk >= Ground(r)

(* No two targets have one name, and the scorer counts every one.          *)
TargetsNamed ==
  /\ IsInjective(names)
  /\ \A i \in DOMAIN names : names[i][1] = "casualty"

BuiltTrue ==
  /\ TargetsNamed
  /\ step = "built" => OneRoof /\ SurfaceShowsMesh /\ EachShapeOnce /\ StandsOnTop
=============================================================================
