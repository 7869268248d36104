-------------------------------- MODULE GridAoi --------------------------------
(***************************************************************************)
(* gridwake-aoi's GridAoi: entities and observers in space, an index of    *)
(* the entities by grid cell, and per axis a count of the entities in each *)
(* layer of cells, which lets a query skip the layers nobody is in.        *)
(* Coordinates are integers here.                                          *)
(***************************************************************************)
EXTENDS CoreIds, FiniteSets, Maps

CONSTANTS
  Point,       \* where observers and entities can be, a set of [x, y, z]
  Radius,      \* interest radii
  CellSize,    \* GridAoiConfig::cell_size
  MinCell,     \* i32::MIN and i32::MAX: a cell coordinate beyond saturates
  MaxCell

ASSUME GridAssumption ==
  /\ Point \subseteq [x : Int, y : Int, z : Int]
  /\ Radius \subseteq Nat
  /\ CellSize \in Nat \ {0}
  /\ MinCell \in Int /\ MaxCell \in Int /\ MinCell <= MaxCell

VARIABLES
  observers,   \* ObserverEntry of each observer
  entities,    \* EntityEntry of each entity
  cells,       \* the entities in each cell that has any
  layers       \* occupied_x_layers, occupied_y_layers and occupied_z_layers

gridVars == <<observers, entities, cells, layers>>
index == <<cells, layers>>

Axis == {"x", "y", "z"}
CellCoord == [Axis -> MinCell..MaxCell]

GridTypeOK ==
  /\ \E C \in SUBSET Client : observers \in [C -> [position : Point, radius : Radius]]
  /\ \E S \in SUBSET Entity : entities \in [S -> [position : Point, cell : CellCoord]]
  /\ DOMAIN cells \subseteq CellCoord
  /\ \A cell \in DOMAIN cells : cells[cell] \in (SUBSET Entity) \ {{}}
  /\ \A a \in Axis :
       /\ DOMAIN layers[a] \subseteq MinCell..MaxCell
       /\ \A n \in DOMAIN layers[a] : layers[a][n] \in Nat \ {0}

GridInit ==
  /\ observers = EmptyMap
  /\ entities = EmptyMap
  /\ cells = EmptyMap
  /\ layers = [a \in Axis |-> EmptyMap]

-------------------------------------------------------------------------------
(* The index *)

\* floor(coordinate / cell_size) as i32
CellNumber(n) ==
  CASE n \div CellSize < MinCell -> MinCell
    [] n \div CellSize > MaxCell -> MaxCell
    [] OTHER -> n \div CellSize

CellForPosition(p) == [a \in Axis |-> CellNumber(p[a])]

Members(cell) == IF cell \in DOMAIN cells THEN cells[cell] ELSE {}

\* increment_occupied_layers and decrement_layer, on one axis
Incremented(counts, n) == Put(counts, n, IF n \in DOMAIN counts THEN counts[n] + 1 ELSE 1)

\* Mutant: a layer nobody is left in stays.
DecrementedToZero(counts, n) ==
  IF n \in DOMAIN counts THEN [counts EXCEPT ![n] = @ - 1] ELSE counts

Decremented(counts, n) ==
  IF n \in DOMAIN counts /\ counts[n] > 1 THEN [counts EXCEPT ![n] = @ - 1]
                                          ELSE Drop(counts, {n})

\* remove_entity_from_cell: an emptied cell goes
CellsWithout(e, cell) ==
  IF Members(cell) \subseteq {e} THEN Drop(cells, {cell})
                                 ELSE [cells EXCEPT ![cell] = @ \ {e}]

LayersWithout(e, cell) ==
  IF e \in Members(cell) THEN [a \in Axis |-> Decremented(layers[a], cell[a])] ELSE layers

\* insert_entity_into_cell, on an index that does not hold the entity
CellsWith(map, e, cell) ==
  Put(map, cell, {e} \cup (IF cell \in DOMAIN map THEN map[cell] ELSE {}))

LayersWith(counts, cell) == [a \in Axis |-> Incremented(counts[a], cell[a])]

\* the entity leaves the cells named and enters its new one
Reindex(e, old, new) ==
  IF old = {} THEN /\ cells' = CellsWith(cells, e, new)
                   /\ layers' = LayersWith(layers, new)
  ELSE \E cell \in old : /\ cells' = CellsWith(CellsWithout(e, cell), e, new)
                         /\ layers' = LayersWith(LayersWithout(e, cell), new)

-------------------------------------------------------------------------------
(* InterestIndex *)

InsertObserver(c, p, r) ==
  /\ observers' = Put(observers, c, [position |-> p, radius |-> r])
  /\ UNCHANGED <<entities, index>>

UpdateObserver(c, p, r) ==
  /\ c \in DOMAIN observers
  /\ observers' = [observers EXCEPT ![c] = [position |-> p, radius |-> r]]
  /\ UNCHANGED <<entities, index>>

RemoveObserver(c) ==
  /\ c \in DOMAIN observers
  /\ observers' = Drop(observers, {c})
  /\ UNCHANGED <<entities, index>>

\* Inserting an entity that is there moves it, by way of out of its old cell.
InsertEntity(e, p) ==
  LET old == {entities[d].cell : d \in DOMAIN entities \cap {e}}
  IN  /\ entities' = Put(entities, e, [position |-> p, cell |-> CellForPosition(p)])
      /\ Reindex(e, old, CellForPosition(p))
      /\ UNCHANGED observers

\* Mutant: the index is not told of a new cell.
UpdateEntityKeepsIndex(e, p) ==
  /\ e \in DOMAIN entities
  /\ entities' = [entities EXCEPT ![e] = [position |-> p, cell |-> CellForPosition(p)]]
  /\ UNCHANGED <<observers, index>>

\* The index changes only when the entity changes cell.
UpdateEntity(e, p) ==
  /\ e \in DOMAIN entities
  /\ entities' = [entities EXCEPT ![e] = [position |-> p, cell |-> CellForPosition(p)]]
  /\ IF entities[e].cell = CellForPosition(p)
       THEN UNCHANGED index
       ELSE Reindex(e, {entities[e].cell}, CellForPosition(p))
  /\ UNCHANGED observers

RemoveEntity(e) ==
  /\ e \in DOMAIN entities
  /\ entities' = Drop(entities, {e})
  /\ cells' = CellsWithout(e, entities[e].cell)
  /\ layers' = LayersWithout(e, entities[e].cell)
  /\ UNCHANGED observers

-------------------------------------------------------------------------------
(* Queries *)

Square(n) == n * n
DistanceSquared(p, q) == Square(p.x - q.x) + Square(p.y - q.y) + Square(p.z - q.z)

\* Mutant: the last layer of the range is left out.
LayersBelowRange(c, a) ==
  LET o == observers[c]
  IN  {n \in DOMAIN layers[a] : /\ CellNumber(o.position[a] - o.radius) <= n
                                 /\ n < CellNumber(o.position[a] + o.radius)}

\* the occupied layers of an axis within the cell bounds of the observer's sphere
LayersInRange(c, a) ==
  LET o == observers[c]
  IN  {n \in DOMAIN layers[a] :
         n \in CellNumber(o.position[a] - o.radius)..CellNumber(o.position[a] + o.radius)}

\* query_observer_with: the cells visited, and what is pushed from them
CellsVisited(c) == {cell \in DOMAIN cells : \A a \in Axis : cell[a] \in LayersInRange(c, a)}

InSphere(c, e) ==
  DistanceSquared(observers[c].position, entities[e].position) <= Square(observers[c].radius)

Pushed(c, cell) == {e \in cells[cell] \cap DOMAIN entities : InSphere(c, e)}

QueryObserver(c) == UNION {Pushed(c, cell) : cell \in CellsVisited(c)}

GridNext ==
  \/ \E c \in Client :
       \/ \E p \in Point, r \in Radius : InsertObserver(c, p, r) \/ UpdateObserver(c, p, r)
       \/ RemoveObserver(c)
  \/ \E e \in Entity :
       \/ \E p \in Point : InsertEntity(e, p) \/ UpdateEntity(e, p)
       \/ RemoveEntity(e)

GridSpec == GridInit /\ [][GridNext]_gridVars

-------------------------------------------------------------------------------

(* The index is what the entities make it: each is in the cell of its         *)
(* position and no other, no emptied cell or layer stays behind, and a layer  *)
(* counts just its entities, so that none is skipped while somebody is in it. *)
IndexMatchesEntities ==
  /\ \A e \in DOMAIN entities : entities[e].cell = CellForPosition(entities[e].position)
  /\ cells = [cell \in {entities[e].cell : e \in DOMAIN entities} |->
                {e \in DOMAIN entities : entities[e].cell = cell}]
  /\ \A a \in Axis :
       layers[a] = [n \in {entities[e].cell[a] : e \in DOMAIN entities} |->
                      Cardinality({e \in DOMAIN entities : entities[e].cell[a] = n})]

(* A query is exact: by way of cells and layers it finds each entity in the   *)
(* observer's sphere, on the boundary included, once, and no other.           *)
QueryIsExact ==
  \A c \in DOMAIN observers :
    /\ QueryObserver(c) = {e \in DOMAIN entities : InSphere(c, e)}
    /\ \A one, other \in CellsVisited(c) : one # other => Pushed(c, one) \cap Pushed(c, other) = {}
===============================================================================
