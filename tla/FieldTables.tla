---------------------------- MODULE FieldTables ----------------------------
(***************************************************************************)
(* The default fields every BranchConfig starts with: for each detector    *)
(* type the field ids of core/Constants.hpp, split into the elementary     *)
(* types the constructor of BranchConfig registers them under.             *)
(***************************************************************************)
EXTENDS Integers

\* The value a lookup of an absent field returns (UndefValueShort).
Undef == -999

\* The elementary types of a field, one VectorConfig<T> base class for each.
Types == {"float", "int", "bool"}

NoFields == [n \in {} |-> Undef]

DefaultFields ==
  [ kTrack |->
      [float |-> [phi |-> -1, pT |-> -2, eta |-> -3, px |-> -4, py |-> -5,
                  pz |-> -6, p |-> -7],
       int   |-> [q |-> -8, id |-> -9],
       bool  |-> NoFields],
    kParticle |->
      [float |-> [phi |-> -1, pT |-> -2, rapidity |-> -3, mass |-> -5,
                  eta |-> -6, px |-> -7, py |-> -8, pz |-> -9, p |-> -10,
                  E |-> -11, T |-> -12],
       int   |-> [pid |-> -4, q |-> -13, id |-> -14],
       bool  |-> NoFields],
    kHit |->
      [float |-> [phi |-> -1, signal |-> -2, x |-> -3, y |-> -4, z |-> -5],
       int   |-> [id |-> -6],
       bool  |-> NoFields],
    kModule |->
      [float |-> [signal |-> -2],
       int   |-> [number |-> -1, id |-> -3],
       bool  |-> NoFields],
    kEventHeader |->
      [float |-> [vtx_x |-> -1, vtx_y |-> -2, vtx_z |-> -3],
       int   |-> [id |-> -4],
       bool  |-> NoFields],
    kGeneric |->
      [float |-> NoFields, int |-> NoFields, bool |-> NoFields] ]

AllDetTypes == DOMAIN DefaultFields

DefaultNames(d) == UNION {DOMAIN DefaultFields[d][t] : t \in Types}

\* The id of field n in the VectorConfig<t> of a fresh branch of type d.
DefaultId(d, t, n) ==
  IF n \in DOMAIN DefaultFields[d][t] THEN DefaultFields[d][t][n] ELSE Undef
=============================================================================
