------------------------------ MODULE LockFile ------------------------------
(***************************************************************************)
(* toConfig of cmd/config_helper.go: the lock file for what the solver      *)
(* chose.  A package is a record with its name, the entries it provides and *)
(* requires, its files, and whether Integrity of pkg/api/api.go can read    *)
(* its checksum; the id of a package is its name.                           *)
(***************************************************************************)
EXTENDS Sequences

makeId(p) == p.name

ProvidedNames_NoFiles(p) == {e.name : e \in p.provides}   \* mutant: files are forgotten
ProvidedNames(p) == {e.name : e \in p.provides} \cup p.files
RequiredNames(p) == {p.requires[n].name : n \in DOMAIN p.requires}

\* collectProviders: who provides a name, ignored or not.
collectProviders(forceIgnored, install, name) ==
  {p \in forceIgnored \cup install : name \in ProvidedNames(p)}

\* collectDependencies: every provider that is not ignored, but p itself; it
\* fails for a requirement without provider.
DependenciesFail(p, forceIgnored, install) ==
  \E name \in RequiredNames(p) : collectProviders(forceIgnored, install, name) = {}

collectDependencies_One(p, forceIgnored, install) ==   \* mutant: one provider is enough
  {CHOOSE q \in collectProviders(forceIgnored, install, name) : TRUE : name \in RequiredNames(p)}
  \ (forceIgnored \cup {p})

collectDependencies(p, forceIgnored, install) ==
  (UNION {collectProviders(forceIgnored, install, name) \ forceIgnored : name \in RequiredNames(p)})
  \ {p}

\* Integrity: the checksum is of an unknown kind, or no hexadecimal number.
IntegrityFails(p) == ~p.readable

toConfigFails(install, forceIgnored) ==
  \E p \in install : IntegrityFails(p) \/ DependenciesFail(p, forceIgnored, install)

toConfig(install, forceIgnored, targets) ==
  [rpms |-> {[id |-> makeId(p),
              dependencies |-> {makeId(q) : q \in collectDependencies(p, forceIgnored, install)}] :
                p \in install},
   forceIgnored |-> {makeId(p) : p \in forceIgnored},
   targets |-> targets]
============================================================================
