----------------------------- MODULE MCAnswers -----------------------------
(***************************************************************************)
(* Instance of AnswerPipeline: three sections of policy documents, the     *)
(* second of every kind that scope, time, review and conflicts tell apart. *)
(***************************************************************************)
EXTENDS AnswerPipeline

On(year, half) == [year |-> year, half |-> half]
Base == [chunk |-> 1, source |-> "d1", supersedes |-> None, from |-> None, to |-> None,
         current |-> TRUE, cohort |-> None, college |-> None, programs |-> {},
         docType |-> "policy", topics |-> {}, mentions |-> {"exam"}, authority |-> 1,
         review |-> "verified", article |-> "a1", values |-> {"60"}, long |-> FALSE, wording |-> "faithful"]
Second == [Base EXCEPT !.chunk = 2, !.source = "d2", !.article = "a2", !.mentions = {"exam", "credits"}]
Third == [Base EXCEPT !.chunk = 3, !.source = "d3", !.article = "a3",
                    !.values = {}, !.long = TRUE]

\* Today is the first day of year 2.
MCToday == 4
Seconds ==
    {Second,
     [Second EXCEPT !.article = "a1", !.values = {"75"}],
     [Second EXCEPT !.supersedes = "d1", !.review = "review_required"],
     [Second EXCEPT !.supersedes = "d1", !.from = On(2, None)],
     [Second EXCEPT !.supersedes = "d1", !.from = On(2, 0), !.wording = "unbound"],
     [Second EXCEPT !.to = On(1, 1), !.current = FALSE],
     [Second EXCEPT !.to = On(2, None), !.source = "d1"],
     [Second EXCEPT !.cohort = 2022, !.programs = {"p1", "p2"}],
     [Second EXCEPT !.college = "c1", !.programs = {"p1"}],
     [Second EXCEPT !.docType = "curriculum"],
     [Second EXCEPT !.topics = {"leave"}],
     [Second EXCEPT !.authority = 0]}
Thirds == {Third, [Third EXCEPT !.review = "review_required"]}
MCCorpora == {{Base, s, t} : s \in Seconds, t \in Thirds}

Ask == [outputs |-> {"policy"}, cohort |-> None, programs |-> {}, colleges |-> {},
        topics |-> {}, asOf |-> None, topK |-> 1, quantity |-> FALSE]
MCRequests ==
    {Ask,
     [Ask EXCEPT !.topK = 2, !.quantity = TRUE],
     [Ask EXCEPT !.topK = 2, !.asOf = On(1, None), !.topics = {"exam"}],
     [Ask EXCEPT !.topK = 2, !.cohort = 2022, !.programs = {"p1"}, !.colleges = {"c1"}],
     [Ask EXCEPT !.outputs = {"policy", "progress"}, !.topK = 2, !.cohort = 2022, !.programs = {"p1", "p2"}],
     [Ask EXCEPT !.outputs = {"progress"}]}

\* Scores by words may be negative; with those every section is relevant to the reranker.
MCScores == [mode \in {"lexical", "hybrid"} |->
    IF mode = "lexical" THEN [bm25 : [1..3 -> -1..1]]
    ELSE [bm25 : [1..3 -> 0..1], cosine : [1..3 -> 0..1], reranker : [1..3 -> 0..1]]
         \cup [bm25 : [1..3 -> -1..1], cosine : [1..3 -> 0..1], reranker : [1..3 -> {1}]]]
============================================================================
