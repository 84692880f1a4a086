-------------------------- MODULE AcademicTools --------------------------
(***************************************************************************)
(* What the tools of academic/tools.py answer from the database: packets   *)
(* of facts and the coverage they claim.  The trust of a packet is the     *)
(* review status of the sections its rows cite, which the rows' own        *)
(* statuses do not enter.  Facts are the rows they are made from; of the   *)
(* comparison the dimensions course_sets and module_requirements are here, *)
(* the others read the nature of courses and the text of rules.            *)
(***************************************************************************)
EXTENDS AcademicDatabase, FiniteSetsExt

\* AcademicRepository.source finds the chunk: there is evidence for the row.
HasEvidence(db, chunk) == chunk # None /\ chunk \in DOMAIN db.sections
TrustedChunk(db, chunk) == HasEvidence(db, chunk) /\ db.sections[chunk].status = "verified"

\* AcademicRepository.list_courses compares the first digit of the stored semester.
FirstDigit(semester) == IF semester < 10 THEN semester ELSE semester \div 10
ListCourses(db, p, semesters) ==
    {o \in OfferingsOf(db, p) :
        semesters = {} \/ FirstDigit(o.course.semester) \in semesters}

\* _courses_packet: complete whatever it holds.
CoursesPacket(db, rows) ==
    [complete |-> TRUE, rows |-> rows,
     trusted |-> \A o \in rows : TrustedChunk(db, o.course.chunk)]

CourseDetail(db, p, code) ==
    CoursesPacket(db, {o \in ListCourses(db, p, {}) : o.course.code = code})

\* _requirements_packet
RequirementsPacket(db, p, modules) ==
    LET rows == {r \in RequirementsOf(db, p) : modules = {} \/ r.module \in modules}
    IN [complete |-> rows # {}, rows |-> rows,
        trusted |-> rows # {} /\ \A r \in rows : TrustedChunk(db, r.chunk)]

\* The credits of the completed rows of a module.  A course offered twice counts twice.
Completed(rows, codes, m) ==
    MapThenSumSet(LAMBDA o : o.course.credits,
                  {o \in rows : o.course.code \in codes /\ o.course.module = m})

\* audit_completed_courses: per requirement, the completed credits and what remains.
Audit(db, p, codes) ==
    LET courses == CoursesPacket(db, ListCourses(db, p, {}))
        requirements == RequirementsPacket(db, p, {})
        numeric == {r \in requirements.rows : r.required # None}
        total(m) == Completed(courses.rows, codes, m)
    IN [complete |-> numeric # {} /\ courses.complete /\ requirements.complete,
        trusted |-> courses.trusted /\ requirements.trusted,
        facts |-> {[module |-> r.module, required |-> r.required, completed |-> total(r.module),
                    remaining |-> IF r.required > total(r.module)
                                    THEN r.required - total(r.module) ELSE 0] : r \in numeric}]

\* compare_programs
Dimensions == {"course_sets", "module_requirements"}
Compared(db, p, dimension) ==
    IF dimension = "module_requirements"
      THEN \E r \in RequirementsOf(db, p) : r.required # None /\ HasEvidence(db, r.chunk)
      ELSE /\ OfferingsOf(db, p) # {}
           /\ \A o \in OfferingsOf(db, p) : HasEvidence(db, o.course.chunk)

CitedInComparison(db, ps, dimensions) ==
    (IF "module_requirements" \in dimensions
       THEN {r.chunk : r \in {q \in UNION {RequirementsOf(db, p) : p \in ps} : q.required # None}}
       ELSE {})
    \cup (IF "course_sets" \in dimensions
            THEN {o.course.chunk : o \in UNION {OfferingsOf(db, p) : p \in ps}} ELSE {})

Comparison(db, ps, dimensions) ==
    LET complete == dimensions # {} /\ \A d \in dimensions, p \in ps : Compared(db, p, d)
    IN [complete |-> complete,
        trusted |-> /\ complete
                    /\ \A chunk \in CitedInComparison(db, ps, dimensions) : TrustedChunk(db, chunk)]
===========================================================================
